---- MODULE Spec2Model ----
(***************************************************************************)
(* A model of the billing, rate-limiting and usage-alert logic of the      *)
(* billmunshi backend (Django / DRF / Celery).                              *)
(*                                                                         *)
(* Time is counted in half hours since a UTC midnight: the project runs    *)
(* with USE_TZ = True and TIME_ZONE = "Asia/Kolkata" (UTC+05:30), so the   *)
(* half hour is the coarsest unit in which both the UTC and the local      *)
(* calendar are whole numbers.                                             *)
(*                                                                         *)
(* Each subsystem has its own variables and its own specification; the     *)
(* variables of the other subsystems are held at an idle value.            *)
(***************************************************************************)
EXTENDS Integers, Sequences, FiniteSets, TLC

VARIABLES
    clock,          \* timezone.now() / time.time(), in half hours
    \* ---- EnhancedRateLimitMiddleware (apps/api/middleware.py)
    cache,          \* django.core.cache: key -> [val, exp]
    rlKeys,         \* OrganizationAPIKey rows: id -> limits
    rlPlans,        \* user id -> set of organization memberships
    rlActive,       \* the identities that send requests in this run
    admitted,       \* history: identity -> (UTC hour -> counted requests admitted in it)
    passedSkip,     \* history: identity -> (UTC hour -> requests let through on a skip path)
    rlLast,         \* history: the last request handled and its answer
    rlCount,        \* history: number of requests handled
    \* ---- APIKeyRateLimitMiddleware (apps/teams/middleware.py)
    kRows,          \* OrganizationAPIKey rows: key id -> limits
    kLogs,          \* APIKeyUsageLog rows
    kReq,           \* worker -> the request it is handling and where it is in it
    kPassed,        \* history: key id -> (time -> requests that passed process_request then)
    kCount,         \* history: number of requests received
    \* ---- APIKeyAuthenticationMiddleware (apps/teams/middleware.py)
    aKeys,          \* OrganizationAPIKey rows: key -> row
    aLast,          \* history: the last request handled, its answer and request.api_key
    aCount,         \* history: number of requests handled
    \* ---- process_billing and the invoices (apps/subscriptions)
    bSubs,          \* OrganizationSubscription rows: id -> row
    bInvoices,      \* SubscriptionInvoice rows
    bRun,           \* command run -> where it is in its loop, its loaded rows, the number it generated
    bRenewals,      \* history: the renewals process_billing carried out
    bFailed,        \* history: iterations that ended in the except branch
    bCount,         \* history: number of command runs started
    \* ---- BillingCalculator.calculate_upgrade_proration (apps/subscriptions/utils.py)
    pSub,           \* the OrganizationSubscription row the proration is computed for
    pOut,           \* history: the last call, its arguments and the dict it returned
    pCount,         \* history: number of calls
    \* ---- SubscriptionManager.create_subscription and the discount codes (apps/subscriptions)
    dDiscount,      \* the SubscriptionDiscount row of the code, as committed
    dSubs,          \* OrganizationSubscription rows, as committed
    dTxn,           \* worker -> the create_subscription transaction it has open
    dRedeemed,      \* history: the creations that applied the discount
    dCount,         \* history: number of create_subscription calls
    \* ---- UsageTracker.check_usage_limits (apps/subscriptions/utils.py)
    uSub,           \* the OrganizationSubscription row, with the limits of its plan and its organization
    uMembers,       \* OrganizationMember rows of the organization
    uEvents,        \* SubscriptionEvent rows, in the order they were created
    uNotifs,        \* UserNotification rows, in the order they were created
    uLast,          \* history: the usage summary of the last check and the alerts that check created
    uCount,         \* history: number of checks
    \* ---- send_usage_alerts (apps/subscriptions/tasks.py)
    alSubs,         \* OrganizationSubscription rows with their usage: id -> row
    alEvents,       \* SubscriptionEvent rows, in the order they were created
    alNotifs,       \* UserNotification rows, in the order they were created
    alEmails,       \* send_subscription_email tasks queued, in order
    alLastRun,      \* celery beat: when the task last ran, NoTime before the first run
    alRuns,         \* history: number of runs of the task
    \* ---- cancel and reactivate (apps/subscriptions: views.py, serializers.py, utils.py)
    lSub,           \* the OrganizationSubscription row of the request
    lEvents,        \* SubscriptionEvent rows, in the order they were created
    lNotifs,        \* UserNotification rows, in the order they were created
    lLast,          \* history: the last request, the row it found and the response
    lCount,         \* history: number of requests handled
    \* ---- OrganizationSubscriptionViewSet.create (apps/subscriptions/views.py)
    cSubs,          \* OrganizationSubscription rows, as committed
    cEvents,        \* SubscriptionEvent rows, in the order they were created
    cNotifs,        \* UserNotification rows, in the order they were created
    cReq,           \* worker -> the create request it is handling and where it is in it
    cDone,          \* history: the requests answered, what they found and what they did
    cCount,         \* history: number of requests received
    \* ---- Celery tasks with retries (apps/subscriptions/tasks.py)
    tkNow,          \* worker time in seconds
    tkQueue,        \* task messages waiting in the broker
    tkSent,         \* every task message published so far
    tkLog,          \* the executions of task bodies, in order
    tkState,        \* the state of each task id
    tkCount,        \* number of delay() calls
    \* ---- organizations, members and invitations (apps/teams)
    tmOrgs,         \* the organizations created so far
    tmMembers,      \* the OrganizationMember rows
    tmInvites,      \* the Invitation rows
    tmLast,         \* the last team request and its response
    tmCount,        \* number of team requests handled
    \* ---- EnhancedRateLimitMiddleware in several workers (apps/api/middleware.py)
    rcReq,          \* the request each worker is handling and the counts it has read
    \* ---- custom prices (apps/subscriptions/serializers.py, utils.py)
    prSubs,         \* the subscriptions whose price is set
    prLast,         \* the last price request and its response
    prCount,        \* number of price requests handled
    \* ---- UsageTracker.record_usage and the UsageRecord post_save signal (apps/subscriptions)
    urRecords,      \* the UsageRecord rows, oldest first
    urSignals,      \* the events and e-mails of handle_usage_record_creation
    urLast,         \* the last recording call and the counter before and after it
    \* ---- check_subscription_renewals (apps/subscriptions/tasks.py)
    rnEvents,       \* the events and e-mails of check_subscription_renewals
    rnLastRun,      \* when check_subscription_renewals last ran
    rnRuns,         \* number of check_subscription_renewals runs
    \* ---- trial expiration (tasks.py, celery.py)
    trSubs,         \* subscription id -> OrganizationSubscription row
    trEvents,       \* SubscriptionEvent rows, in creation order
    trInvoices,     \* SubscriptionInvoice rows the webhook task created
    trEmails,       \* send_subscription_email messages queued
    trLastRun,      \* beat entry -> time beat last sent the task
    trCalls         \* webhook deliveries and manual task calls so far

rlVars == <<cache, rlKeys, rlPlans, rlActive, admitted, passedSkip, rlLast, rlCount>>
keyVars == <<kRows, kLogs, kReq, kPassed, kCount>>
authVars == <<aKeys, aLast, aCount>>
billVars == <<bSubs, bInvoices, bRun, bRenewals, bFailed, bCount>>
prorVars == <<pSub, pOut, pCount>>
discVars == <<dDiscount, dSubs, dTxn, dRedeemed, dCount>>
usageVars == <<uSub, uMembers, uEvents, uNotifs, uLast, uCount>>
alertVars == <<alSubs, alEvents, alNotifs, alEmails, alLastRun, alRuns>>
lifeVars == <<lSub, lEvents, lNotifs, lLast, lCount>>
createVars == <<cSubs, cEvents, cNotifs, cReq, cDone, cCount>>
taskVars == <<tkNow, tkQueue, tkSent, tkLog, tkState, tkCount>>
teamVars == <<tmOrgs, tmMembers, tmInvites, tmLast, tmCount>>
rcVars == <<rcReq>>
priceVars == <<prSubs, prLast, prCount>>
recordVars == <<urRecords, urSignals, urLast>>
renewVars == <<rnEvents, rnLastRun, rnRuns>>
trialVars == <<trSubs, trEvents, trInvoices, trEmails, trLastRun, trCalls>>

vars == <<clock, rlVars, keyVars, authVars, billVars, prorVars, discVars, usageVars, alertVars, lifeVars, createVars, taskVars, teamVars, rcVars, priceVars, recordVars, renewVars, trialVars>>

\* what the actions of one subsystem leave alone
RLOthers == <<keyVars, authVars, billVars, prorVars, discVars, usageVars, alertVars, lifeVars, createVars, taskVars, teamVars, rcVars, priceVars, recordVars, renewVars, trialVars>>
KeyOthers == <<rlVars, authVars, billVars, prorVars, discVars, usageVars, alertVars, lifeVars, createVars, taskVars, teamVars, rcVars, priceVars, recordVars, renewVars, trialVars>>
AuthOthers == <<rlVars, keyVars, billVars, prorVars, discVars, usageVars, alertVars, lifeVars, createVars, taskVars, teamVars, rcVars, priceVars, recordVars, renewVars, trialVars>>
BillOthers == <<rlVars, keyVars, authVars, prorVars, discVars, usageVars, alertVars, lifeVars, createVars, taskVars, teamVars, rcVars, priceVars, recordVars, renewVars, trialVars>>
ProrOthers == <<rlVars, keyVars, authVars, billVars, discVars, usageVars, alertVars, lifeVars, createVars, taskVars, teamVars, rcVars, priceVars, recordVars, renewVars, trialVars>>
DiscOthers == <<rlVars, keyVars, authVars, billVars, prorVars, usageVars, alertVars, lifeVars, createVars, taskVars, teamVars, rcVars, priceVars, recordVars, renewVars, trialVars>>
UsageOthers == <<rlVars, keyVars, authVars, billVars, prorVars, discVars, alertVars, lifeVars, createVars, taskVars, teamVars, rcVars, priceVars, recordVars, renewVars, trialVars>>
AlertOthers == <<rlVars, keyVars, authVars, billVars, prorVars, discVars, usageVars, lifeVars, createVars, taskVars, teamVars, rcVars, priceVars, recordVars, renewVars, trialVars>>
LifeOthers == <<rlVars, keyVars, authVars, billVars, prorVars, discVars, usageVars, alertVars, createVars, taskVars, teamVars, rcVars, priceVars, recordVars, renewVars, trialVars>>
CreateOthers == <<rlVars, keyVars, authVars, billVars, prorVars, discVars, usageVars, alertVars, lifeVars, taskVars, teamVars, rcVars, priceVars, recordVars, renewVars, trialVars>>
TaskOthers == <<rlVars, keyVars, authVars, billVars, prorVars, discVars, usageVars, alertVars, lifeVars, createVars, teamVars, rcVars, priceVars, recordVars, renewVars, trialVars>>
TeamOthers == <<rlVars, keyVars, authVars, billVars, prorVars, discVars, usageVars, alertVars, lifeVars, createVars, taskVars, rcVars, priceVars, recordVars, renewVars, trialVars>>
RCOthers == <<keyVars, authVars, billVars, prorVars, discVars, usageVars, alertVars, lifeVars, createVars, taskVars, teamVars, priceVars, recordVars, renewVars, trialVars>>
PriceOthers == <<rlVars, keyVars, authVars, billVars, prorVars, discVars, usageVars, alertVars, lifeVars, createVars, taskVars, teamVars, rcVars, recordVars, renewVars, trialVars>>
RecordOthers == <<rlVars, keyVars, authVars, billVars, prorVars, discVars, alertVars, lifeVars, createVars, taskVars, teamVars, rcVars, priceVars, renewVars, trialVars>>
RenewOthers == <<rlVars, keyVars, authVars, prorVars, discVars, usageVars, alertVars, lifeVars, createVars, taskVars, teamVars, rcVars, priceVars, recordVars, trialVars>>
TrialOthers == <<rlVars, keyVars, authVars, billVars, prorVars, discVars, usageVars, alertVars, lifeVars, createVars, taskVars, teamVars, rcVars, priceVars, recordVars, renewVars>>

\* ------------------------------------------------------------------ time

HOUR == 2
DAY == 48

\* strftime('%Y%m%d%H') and strftime('%Y%m%d') of the UTC time t
HourStamp(t) == t \div HOUR
DayStamp(t) == t \div DAY

Max(a, b) == IF a >= b THEN a ELSE b
Min(a, b) == IF a <= b THEN a ELSE b

RECURSIVE SumOver(_, _)
SumOver(f, S) ==
    IF S = {} THEN 0
    ELSE LET x == CHOOSE y \in S : TRUE IN f[x] + SumOver(f, S \ {x})

\* ------------------------------------------------------------------ bounds

\* the runs start one hour before a UTC midnight and last RLTicks half hours
RLClock0 == DAY - HOUR
RLTicks == 3
RLMaxRequests == 3

\* ---------------------------------------------- EnhancedRateLimitMiddleware

NoneVal == "None"

\* the cache with its expired entries gone, as Redis shows it at time t
LiveAt(c, t) == [k \in {x \in DOMAIN c : c[x].exp > t} |-> c[k]]

\* cache.get(key, default)
CacheGet(c, key, default) ==
    IF key \in DOMAIN c /\ c[key].exp > clock THEN c[key].val ELSE default

\* cache.set(key, value, timeout)
CacheSet(c, key, value, timeout) ==
    [k \in DOMAIN c \cup {key} |->
        IF k = key THEN [val |-> value, exp |-> clock + timeout] ELSE c[k]]

AnonHourlyLimit == 50
AnonDailyLimit == 200
UserHourlyDefault == 100
UserDailyDefault == 1000
UserHourlyPlan == 200
UserDailyPlan == 2000
UserHourlyBoost == 500
UserDailyBoost == 5000

\* OrganizationSubscription.is_active
SubIsActive(status) == status \in {"trial", "active"}

\* the loop of check_user_rate_limit over the user's active memberships
RECURSIVE UserLimits(_, _)
UserLimits(ms, acc) ==
    IF ms = {} THEN acc
    ELSE LET m == CHOOSE x \in ms : TRUE
             rest == ms \ {m}
         IN IF m.is_active /\ m.sub # NoneVal /\ SubIsActive(m.sub)
            THEN IF m.boost
                 THEN UserLimits(rest, [hour |-> Max(acc.hour, UserHourlyBoost),
                                        day |-> Max(acc.day, UserDailyBoost)])
                 ELSE UserLimits(rest, [hour |-> Max(acc.hour, UserHourlyPlan),
                                        day |-> Max(acc.day, UserDailyPlan)])
            ELSE UserLimits(rest, acc)

\* the limits the three strategies apply to a request, given the API key rows
\* and the memberships
RLLimitsIn(req, keys, plans) ==
    CASE req.kind = "api_key" ->
            [hour |-> keys[req.id].rate_limit_per_hour,
             day |-> keys[req.id].rate_limit_per_day]
      [] req.kind = "user" ->
            UserLimits(plans[req.id],
                       [hour |-> UserHourlyDefault, day |-> UserDailyDefault])
      [] OTHER -> [hour |-> AnonHourlyLimit, day |-> AnonDailyLimit]

RLLimits(req) == RLLimitsIn(req, rlKeys, rlPlans)

\* the prefixes of the cache keys
RLPrefix(kind, window) ==
    CASE kind = "api_key" -> IF window = "hour" THEN "api_key_hourly" ELSE "api_key_daily"
      [] kind = "user" -> IF window = "hour" THEN "user_hourly" ELSE "user_daily"
      [] OTHER -> IF window = "hour" THEN "ip_hourly" ELSE "ip_daily"

\* f"{prefix}:{id}:{stamp}"
RLHourlyKey(req, now) == <<RLPrefix(req.kind, "hour"), req.id, HourStamp(now)>>
RLDailyKey(req, now) == <<RLPrefix(req.kind, "day"), req.id, DayStamp(now)>>

\* (mutant) the limit reached is not yet over the limit
RLOverLimit_Strict(count, limit) == count > limit

\* the comparison of a counter with its limit
RLOverLimit(count, limit) == count >= limit

\* the answer of check_*_rate_limit: "hour" / "day" for the 429, "pass" for None
RLDecision(req) ==
    LET lim == RLLimits(req)
        hourly_count == CacheGet(cache, RLHourlyKey(req, clock), 0)
        daily_count == CacheGet(cache, RLDailyKey(req, clock), 0)
    IN IF RLOverLimit(hourly_count, lim.hour) THEN "hour"
       ELSE IF RLOverLimit(daily_count, lim.day) THEN "day"
       ELSE "pass"

\* the cache after the two cache.set calls of an admitted request
RLIncrement(req) ==
    LET hk == RLHourlyKey(req, clock)
        dk == RLDailyKey(req, clock)
        c1 == CacheSet(cache, hk, CacheGet(cache, hk, 0) + 1, HOUR)
    IN CacheSet(c1, dk, CacheGet(cache, dk, 0) + 1, DAY)

\* process_request returning None: no response, the request goes on to the view
PassOn == [status |-> 0, error |-> "", limit |-> 0, window |-> ""]

\* rate_limit_response(limit, window, retry_after)
RateLimitResponse(limit, window) ==
    [status |-> 429, error |-> "Rate limit exceeded", limit |-> limit, window |-> window]

\* ---- the identities and requests of the runs

\* ids as the f-strings of the cache keys render them
RLApiKeyIds == {"1"}
RLUserIds == {"1"}
RLClientIps == {"10.0.0.1"}

\* hashlib.md5(client_ip.encode()).hexdigest()
Md5(ip) == CASE ip = "10.0.0.1" -> "190dafab69706a67221c1226360de7dc"

RLKeyIdents == [kind : {"api_key"}, id : RLApiKeyIds]
RLUserIdents == [kind : {"user"}, id : RLUserIds]
RLIpIdents == [kind : {"ip"}, id : {Md5(ip) : ip \in RLClientIps}]
RLIdentities == RLKeyIdents \cup RLUserIdents \cup RLIpIdents

\* a request: who sends it and whether its path starts with one of skip_paths
RLRequests == {[kind |-> i.kind, id |-> i.id, skip |-> s] : i \in RLIdentities, s \in BOOLEAN}

RLWho(req) == [kind |-> req.kind, id |-> req.id]

RLHours == 0 .. HourStamp(RLClock0 + RLTicks)

RLKeyLimitChoices ==
    [rate_limit_per_hour : {1, 2}, rate_limit_per_day : {1, 3}]

RLMembershipChoices ==
    { {},
      {[org |-> 1, is_active |-> TRUE, sub |-> "active", boost |-> FALSE]},
      {[org |-> 1, is_active |-> TRUE, sub |-> "trial", boost |-> TRUE],
       [org |-> 2, is_active |-> TRUE, sub |-> "active", boost |-> FALSE]},
      {[org |-> 1, is_active |-> FALSE, sub |-> "active", boost |-> TRUE],
       [org |-> 2, is_active |-> TRUE, sub |-> "cancelled", boost |-> TRUE],
       [org |-> 3, is_active |-> TRUE, sub |-> NoneVal, boost |-> FALSE]} }

RLDefaultKeys == [k \in RLApiKeyIds |-> [rate_limit_per_hour |-> 2, rate_limit_per_day |-> 3]]
RLDefaultPlans == [u \in RLUserIds |-> {}]

\* who sends requests in a run, with the API key rows and memberships of the run
RLScenarios ==
    {[active |-> RLKeyIdents, keys |-> k, plans |-> RLDefaultPlans] :
        k \in [RLApiKeyIds -> RLKeyLimitChoices]}
    \cup {[active |-> RLUserIdents, keys |-> RLDefaultKeys, plans |-> p] :
        p \in [RLUserIds -> RLMembershipChoices]}
    \cup {[active |-> RLIpIdents, keys |-> RLDefaultKeys, plans |-> RLDefaultPlans]}
    \cup {[active |-> RLKeyIdents \cup RLUserIdents, keys |-> k, plans |-> RLDefaultPlans] :
        k \in [RLApiKeyIds -> RLKeyLimitChoices]}

\* ---- starting states: what the cache and the history hold after a day of
\* ---- traffic in which h0 requests of the current hour and d0 of the current
\* ---- day were admitted (the earlier ones at the hourly limit per hour, from
\* ---- the first hour of the day on)

RLSeeds == {"fresh", "hour", "day", "both"}

SeedCounts(seed, lim) ==
    LET d0 == IF seed \in {"day", "both"} THEN Max(lim.day - 1, 0)
              ELSE IF seed = "hour" THEN Min(Max(lim.hour - 1, 0), lim.day)
              ELSE 0
        h0 == IF seed \in {"hour", "both"} THEN Min(Max(lim.hour - 1, 0), d0) ELSE 0
    IN [h0 |-> h0, d0 |-> d0]

\* the admissions of the seeded history in UTC hour h
SeedHistory(sc, lim, h) ==
    IF h = HourStamp(RLClock0) THEN sc.h0
    ELSE IF h < HourStamp(RLClock0)
         THEN Max(0, Min(lim.hour, (sc.d0 - sc.h0) - h * lim.hour))
         ELSE 0

\* the time of the last admission of the seeded history: that of the last
\* cache.set of the daily key
SeedLast(sc, lim) ==
    IF sc.h0 > 0 THEN RLClock0
    ELSE LET hs == {h \in 0 .. HourStamp(RLClock0) : SeedHistory(sc, lim, h) > 0}
         IN IF hs = {} THEN 0 ELSE HOUR * (CHOOSE h \in hs : \A u \in hs : u <= h)

SeedOf(seed, i, keys, plans) ==
    SeedCounts(seed, RLLimitsIn([kind |-> i.kind, id |-> i.id], keys, plans))

SeedCache(seed, active, keys, plans) ==
    LET lim(i) == RLLimitsIn([kind |-> i.kind, id |-> i.id], keys, plans)
        hk(i) == <<RLPrefix(i.kind, "hour"), i.id, HourStamp(RLClock0)>>
        dk(i) == <<RLPrefix(i.kind, "day"), i.id, DayStamp(RLClock0)>>
        hs == {i \in active : SeedOf(seed, i, keys, plans).h0 > 0}
        ds == {i \in active : SeedOf(seed, i, keys, plans).d0 > 0}
    IN [k \in {hk(i) : i \in hs} \cup {dk(i) : i \in ds} |->
          LET i == CHOOSE j \in active : k \in {hk(j), dk(j)}
              sc == SeedOf(seed, i, keys, plans)
          IN IF k = hk(i)
             THEN [val |-> sc.h0, exp |-> RLClock0 + HOUR]
             ELSE [val |-> sc.d0, exp |-> SeedLast(sc, lim(i)) + DAY]]

SeedAdmitted(seed, active, keys, plans) ==
    [i \in active |->
        [h \in RLHours |->
            SeedHistory(SeedOf(seed, i, keys, plans),
                        RLLimitsIn([kind |-> i.kind, id |-> i.id], keys, plans), h)]]

\* ---- the idle values of the other subsystems' variables

KeyIdle ==
    /\ kRows = << >>
    /\ kLogs = {}
    /\ kReq = << >>
    /\ kPassed = << >>
    /\ kCount = 0

\* a DateTimeField that is NULL
NoTime == -1

AuthNone == [status |-> 0, error |-> ""]

AuthNoRequest ==
    [req |-> [bearer |-> "", xff |-> << >>, remote_addr |-> [ip |-> "", pad |-> FALSE]],
     at |-> 0, resp |-> AuthNone, api_key |-> ""]

AuthIdle ==
    /\ aKeys = << >>
    /\ aLast = AuthNoRequest
    /\ aCount = 0

BillIdle ==
    /\ bSubs = << >>
    /\ bInvoices = {}
    /\ bRun = << >>
    /\ bRenewals = {}
    /\ bFailed = 0
    /\ bCount = 0

\* a DecimalField that is NULL, and one that holds an amount (in hundredths)
NoPrice == [null |-> TRUE, amount |-> 0]
Price(n) == [null |-> FALSE, amount |-> n]

\* a Decimal quotient, kept exact
Ratio(n, d) == [num |-> n, den |-> d]

ProrNoCall ==
    [upgrade_date |-> 0, new_price |-> 0,
     credit_amount |-> Ratio(0, 1), new_charge |-> Ratio(0, 1), proration_days |-> 0]

ProrIdle ==
    /\ pSub = << >>
    /\ pOut = ProrNoCall
    /\ pCount = 0

DiscIdle ==
    /\ dDiscount = << >>
    /\ dSubs = {}
    /\ dTxn = << >>
    /\ dRedeemed = {}
    /\ dCount = 0

UsageIdle ==
    /\ uSub = << >>
    /\ uMembers = {}
    /\ uEvents = << >>
    /\ uNotifs = << >>
    /\ uLast = << >>
    /\ uCount = 0

AlertIdle ==
    /\ alSubs = << >>
    /\ alEvents = << >>
    /\ alNotifs = << >>
    /\ alEmails = << >>
    /\ alLastRun = NoTime
    /\ alRuns = 0

LifeIdle ==
    /\ lSub = << >>
    /\ lEvents = << >>
    /\ lNotifs = << >>
    /\ lLast = << >>
    /\ lCount = 0

CreateIdle ==
    /\ cSubs = {}
    /\ cEvents = << >>
    /\ cNotifs = << >>
    /\ cReq = << >>
    /\ cDone = {}
    /\ cCount = 0

TaskIdle ==
    /\ tkNow = 0
    /\ tkQueue = {}
    /\ tkSent = {}
    /\ tkLog = << >>
    /\ tkState = << >>
    /\ tkCount = 0

TeamIdle ==
    /\ tmOrgs = {}
    /\ tmMembers = {}
    /\ tmInvites = {}
    /\ tmLast = << >>
    /\ tmCount = 0

RCIdle ==
    /\ rcReq = << >>

PriceIdle ==
    /\ prSubs = {}
    /\ prLast = << >>
    /\ prCount = 0

RecordIdle ==
    /\ urRecords = << >>
    /\ urSignals = << >>
    /\ urLast = << >>

RenewIdle ==
    /\ rnEvents = {}
    /\ rnLastRun = NoTime
    /\ rnRuns = 0

TrialIdle ==
    /\ trSubs = << >>
    /\ trEvents = << >>
    /\ trInvoices = {}
    /\ trEmails = 0
    /\ trLastRun = << >>
    /\ trCalls = 0

RLNoRequest ==
    [req |-> [kind |-> "", id |-> "", skip |-> FALSE], at |-> 0, resp |-> PassOn]

RLIdle ==
    /\ cache = << >>
    /\ rlKeys = << >>
    /\ rlPlans = << >>
    /\ rlActive = {}
    /\ admitted = << >>
    /\ passedSkip = << >>
    /\ rlLast = RLNoRequest
    /\ rlCount = 0

InitRL ==
    /\ clock = RLClock0
    /\ \E sc \in RLScenarios, seed \in RLSeeds :
          /\ rlActive = sc.active
          /\ rlKeys = sc.keys
          /\ rlPlans = sc.plans
          /\ cache = SeedCache(seed, sc.active, sc.keys, sc.plans)
          /\ admitted = SeedAdmitted(seed, sc.active, sc.keys, sc.plans)
    /\ passedSkip = [i \in rlActive |-> [h \in RLHours |-> 0]]
    /\ rlLast = RLNoRequest
    /\ rlCount = 0
    /\ KeyIdle
    /\ AuthIdle
    /\ BillIdle
    /\ ProrIdle
    /\ DiscIdle
    /\ UsageIdle
    /\ AlertIdle
    /\ LifeIdle
    /\ CreateIdle
    /\ TaskIdle
    /\ TeamIdle
    /\ RCIdle
    /\ PriceIdle
    /\ RecordIdle
    /\ RenewIdle
    /\ TrialIdle

\* EnhancedRateLimitMiddleware.process_request, the requests handled one at a time
RLProcessRequest(req) ==
    /\ RLWho(req) \in rlActive
    /\ rlCount < RLMaxRequests
    /\ rlCount' = rlCount + 1
    /\ IF req.skip
       THEN /\ rlLast' = [req |-> req, at |-> HourStamp(clock), resp |-> PassOn]
            /\ passedSkip' = [passedSkip EXCEPT ![RLWho(req)][HourStamp(clock)] = @ + 1]
            /\ UNCHANGED <<cache, admitted>>
       ELSE LET d == RLDecision(req)
                lim == RLLimits(req)
            IN IF d = "pass"
               THEN /\ cache' = RLIncrement(req)
                    /\ admitted' = [admitted EXCEPT ![RLWho(req)][HourStamp(clock)] = @ + 1]
                    /\ rlLast' = [req |-> req, at |-> HourStamp(clock), resp |-> PassOn]
                    /\ UNCHANGED passedSkip
               ELSE /\ rlLast' = [req |-> req, at |-> HourStamp(clock),
                                  resp |-> RateLimitResponse(
                                      IF d = "hour" THEN lim.hour ELSE lim.day, d)]
                    /\ UNCHANGED <<cache, admitted, passedSkip>>
    /\ UNCHANGED <<clock, rlKeys, rlPlans, rlActive, RLOthers>>

\* time passes; Redis drops the entries whose timeout has run out
RLTick ==
    /\ clock < RLClock0 + RLTicks
    /\ clock' = clock + 1
    /\ cache' = LiveAt(cache, clock + 1)
    /\ UNCHANGED <<rlKeys, rlPlans, rlActive, admitted, passedSkip, rlLast, rlCount, RLOthers>>

NextRL ==
    \/ \E req \in RLRequests : RLProcessRequest(req)
    \/ RLTick

SpecRL == InitRL /\ [][NextRL]_vars

\* ---- C1

\* the UTC hours of the UTC day of hour h
SameDay(h) == {u \in RLHours : DayStamp(u * HOUR) = DayStamp(h * HOUR)}

\* C1 (as stated): every request of an identity is admitted if and only if fewer
\* requests than the identity's hourly limit were admitted before it in the
\* current clock hour and fewer than its daily limit in the current calendar
\* day; every other request is answered 429 'Rate limit exceeded'.
C1_AllRequests ==
    rlCount > 0 =>
        LET who == RLWho(rlLast.req)
            lim == RLLimits(rlLast.req)
            own == IF rlLast.resp = PassOn THEN 1 ELSE 0
            inHour == admitted[who][rlLast.at]
                        + passedSkip[who][rlLast.at] - own
            inDay == SumOver(admitted[who], SameDay(rlLast.at))
                        + SumOver(passedSkip[who], SameDay(rlLast.at)) - own
        IN /\ (rlLast.resp = PassOn) <=> (inHour < lim.hour /\ inDay < lim.day)
           /\ rlLast.resp # PassOn =>
                 rlLast.resp.status = 429 /\ rlLast.resp.error = "Rate limit exceeded"

\* C1 (amended): a request whose path is not under one of the skip prefixes is
\* admitted if and only if fewer such requests of its identity than the hourly
\* limit were admitted before it in the current UTC clock hour and fewer than
\* the daily limit in the current UTC day; every other such request is answered
\* 429 'Rate limit exceeded'. A request on a skip path is let through uncounted.
C1_AdmitIffUnderLimits ==
    rlCount > 0 =>
        LET who == RLWho(rlLast.req)
            lim == RLLimits(rlLast.req)
            own == IF rlLast.resp = PassOn /\ ~rlLast.req.skip THEN 1 ELSE 0
            inHour == admitted[who][rlLast.at] - own
            inDay == SumOver(admitted[who], SameDay(rlLast.at)) - own
        IN IF rlLast.req.skip
           THEN rlLast.resp = PassOn
           ELSE /\ (rlLast.resp = PassOn) <=> (inHour < lim.hour /\ inDay < lim.day)
                /\ rlLast.resp # PassOn =>
                      rlLast.resp.status = 429 /\ rlLast.resp.error = "Rate limit exceeded"

\* a request is refused at the daily limit in an hour in which the hourly limit
\* still has room, after a request was admitted following the UTC midnight
C1_Witness ==
    /\ rlCount > 0
    /\ ~rlLast.req.skip
    /\ rlLast.resp # PassOn
    /\ rlLast.resp.window = "day"
    /\ DayStamp(rlLast.at * HOUR) > DayStamp(RLClock0)

\* ------------------------------------------------ APIKeyRateLimitMiddleware

KTicks == 3
KMaxRequests == 3

KWorkers == {"w1", "w2"}
KKeyIds == {"k1"}
KTimes == 0 .. KTicks
KLimitChoices == [rate_limit_per_hour : {1, 2}, rate_limit_per_day : {2, 3}]

\* APIKeyUsageLog.objects.filter(api_key=api_key, created_at__gte=start_time).count()
KLogCount(key, start_time) ==
    Cardinality({l \in kLogs : l.api_key = key /\ l.created_at >= start_time})

\* APIKeyRateLimitMiddleware.check_rate_limit
KCheckRateLimit(key, window) ==
    LET now == clock
        start_time == IF window = "hour" THEN now - HOUR ELSE now - DAY
        limit == IF window = "hour" THEN kRows[key].rate_limit_per_hour
                 ELSE kRows[key].rate_limit_per_day
    IN KLogCount(key, start_time) < limit

KIdleReq == [pc |-> "idle", key |-> "", status |-> 0]

\* process_request up to the hourly check: a request with request.api_key arrives
KCheckHour(w, key) ==
    /\ kReq[w].pc = "idle"
    /\ kCount < KMaxRequests
    /\ kCount' = kCount + 1
    /\ kReq' = [kReq EXCEPT ![w] =
          IF KCheckRateLimit(key, "hour")
          THEN [pc |-> "check_day", key |-> key, status |-> 0]
          ELSE [pc |-> "respond", key |-> key, status |-> 429]]
    /\ UNCHANGED <<clock, kRows, kLogs, kPassed, KeyOthers>>

\* process_request from the daily check on: the request passes on to the view
\* (which answers 200) or is answered 429
KCheckDay(w) ==
    /\ kReq[w].pc = "check_day"
    /\ IF KCheckRateLimit(kReq[w].key, "day")
       THEN /\ kReq' = [kReq EXCEPT ![w].pc = "respond", ![w].status = 200]
            /\ kPassed' = [kPassed EXCEPT ![kReq[w].key][clock] = @ + 1]
       ELSE /\ kReq' = [kReq EXCEPT ![w].pc = "respond", ![w].status = 429]
            /\ UNCHANGED kPassed
    /\ UNCHANGED <<clock, kRows, kLogs, kCount, KeyOthers>>

\* process_response -> update_usage_log: the response, the middleware's own 429
\* included, is logged
KProcessResponse(w) ==
    /\ kReq[w].pc = "respond"
    /\ kLogs' = kLogs \cup {[id |-> Cardinality(kLogs) + 1, api_key |-> kReq[w].key,
                             created_at |-> clock, status_code |-> kReq[w].status]}
    /\ kReq' = [kReq EXCEPT ![w] = KIdleReq]
    /\ UNCHANGED <<clock, kRows, kPassed, kCount, KeyOthers>>

KTick ==
    /\ clock < KTicks
    /\ clock' = clock + 1
    /\ UNCHANGED <<keyVars, KeyOthers>>

InitKey ==
    /\ clock = 0
    /\ kRows \in [KKeyIds -> KLimitChoices]
    /\ kLogs = {}
    /\ kReq = [w \in KWorkers |-> KIdleReq]
    /\ kPassed = [k \in KKeyIds |-> [t \in KTimes |-> 0]]
    /\ kCount = 0
    /\ RLIdle
    /\ AuthIdle
    /\ BillIdle
    /\ ProrIdle
    /\ DiscIdle
    /\ UsageIdle
    /\ AlertIdle
    /\ LifeIdle
    /\ CreateIdle
    /\ TaskIdle
    /\ TeamIdle
    /\ RCIdle
    /\ PriceIdle
    /\ RecordIdle
    /\ RenewIdle
    /\ TrialIdle

NextKey ==
    \/ \E w \in KWorkers, key \in KKeyIds : KCheckHour(w, key)
    \/ \E w \in KWorkers : KCheckDay(w)
    \/ \E w \in KWorkers : KProcessResponse(w)
    \/ KTick

SpecKey == InitKey /\ [][NextKey]_vars

\* ---- C2

\* the requests of a key that passed process_request at the times a .. a + len - 1
KPassedIn(key, a, len) ==
    SumOver(kPassed[key], {t \in KTimes : a <= t /\ t < a + len})

\* C2: for every API key, at most rate_limit_per_hour requests pass
\* process_request in any one-hour span and at most rate_limit_per_day in any
\* 24-hour span, also when requests of the key are in flight together.
C2_PassesWithinLimits ==
    \A key \in KKeyIds, a \in KTimes :
        /\ KPassedIn(key, a, HOUR) <= kRows[key].rate_limit_per_hour
        /\ KPassedIn(key, a, DAY) <= kRows[key].rate_limit_per_day

\* ---- C21

\* the requests of a key that passed process_request in the window of the given
\* length that check_rate_limit looks at now (created_at >= now - length)
KAdmittedSince(key, length) ==
    SumOver(kPassed[key], {t \in KTimes : clock - length <= t /\ t <= clock})

\* C21: a request is answered 429 by the hourly check only when at least
\* rate_limit_per_hour admitted requests of its key lie within the preceding hour, and
\* by the daily check only when at least rate_limit_per_day lie within the preceding
\* day; the requests rejected in between do not count.
C21_RejectedNotCounted ==
    [][\A w \in KWorkers :
          /\ (kReq[w].pc = "idle" /\ kReq'[w].pc = "respond" /\ kReq'[w].status = 429)
                => KAdmittedSince(kReq'[w].key, HOUR)
                      >= kRows[kReq'[w].key].rate_limit_per_hour
          /\ (kReq[w].pc = "check_day" /\ kReq'[w].pc = "respond"
                /\ kReq'[w].status = 429)
                => KAdmittedSince(kReq'[w].key, DAY)
                      >= kRows[kReq'[w].key].rate_limit_per_day]_vars

\* -------------------------------------------- APIKeyAuthenticationMiddleware

ATicks == 3
AMaxRequests == 2

\* A string holding an IP address is [ip, pad]: the address ("" for none) and
\* whether white space surrounds it. str.strip() drops the white space.
Strip(x) == [ip |-> x.ip, pad |-> FALSE]

AIp(a) == [ip |-> a, pad |-> FALSE]
APadded(a) == [ip |-> a, pad |-> TRUE]

RECURSIVE SeqToStrippedSet(_)
SeqToStrippedSet(toks) ==
    IF toks = << >> THEN {}
    ELSE (IF Strip(Head(toks)).ip # "" THEN {Strip(Head(toks))} ELSE {})
            \cup SeqToStrippedSet(Tail(toks))

\* OrganizationAPIKey.get_allowed_ips_list; allowed_ips is held as the pieces
\* between its commas, the empty string as no piece
GetAllowedIpsList(row) ==
    IF row.allowed_ips = << >> THEN {} ELSE SeqToStrippedSet(row.allowed_ips)

\* (mutant) the list is not consulted
IsIpAllowed_Always(row, ip_address) == TRUE

\* OrganizationAPIKey.is_ip_allowed
IsIpAllowed(row, ip_address) ==
    LET allowed_ips == GetAllowedIpsList(row)
    IN IF allowed_ips = {} THEN TRUE ELSE ip_address \in allowed_ips

\* OrganizationAPIKey.is_expired
KeyIsExpired(row) ==
    IF row.expires_at = NoTime THEN FALSE ELSE clock > row.expires_at

\* APIKeyAuthenticationMiddleware.get_client_ip: the first piece of
\* X-Forwarded-For as it stands, else REMOTE_ADDR
AuthClientIp(req) == IF req.xff # << >> THEN Head(req.xff) ELSE req.remote_addr

\* OrganizationAPIKey.objects.get(key=api_key, is_active=True): the rows found
AuthLookup(api_key) ==
    {k \in DOMAIN aKeys : k = api_key /\ aKeys[k].is_active}

JsonResponse(error, status) == [status |-> status, error |-> error]

AKeyStrings == {"bm_a", "bm_b"}
ABearers == AKeyStrings \cup {"bm_x", ""}
AAllowedChoices ==
    { << >>,
      <<APadded("")>>,
      <<AIp("10.0.0.1"), APadded("10.0.0.2")>> }
AXffChoices ==
    { << >>, <<AIp("10.0.0.2")>>, <<APadded("10.0.0.1"), AIp("10.0.0.3")>> }
ARemoteAddrs == {AIp("10.0.0.1"), AIp("10.0.0.3")}

\* a request: the key after 'Bearer ' ("" when the header is not a Bearer one),
\* X-Forwarded-For split at its commas, and REMOTE_ADDR
ARequests == [bearer : ABearers, xff : AXffChoices, remote_addr : ARemoteAddrs]

\* APIKeyAuthenticationMiddleware.process_request
AuthProcessRequest(req) ==
    /\ aCount < AMaxRequests
    /\ aCount' = aCount + 1
    /\ IF req.bearer = ""
       THEN /\ aLast' = [req |-> req, at |-> clock, resp |-> AuthNone, api_key |-> ""]
            /\ UNCHANGED aKeys
       ELSE IF AuthLookup(req.bearer) = {}
       THEN /\ aLast' = [req |-> req, at |-> clock,
                         resp |-> JsonResponse("Invalid API key", 401), api_key |-> ""]
            /\ UNCHANGED aKeys
       ELSE LET k == CHOOSE x \in AuthLookup(req.bearer) : TRUE
            IN IF KeyIsExpired(aKeys[k])
               THEN /\ aLast' = [req |-> req, at |-> clock,
                                 resp |-> JsonResponse("API key has expired", 401),
                                 api_key |-> ""]
                    /\ UNCHANGED aKeys
               ELSE IF ~IsIpAllowed(aKeys[k], AuthClientIp(req))
               THEN /\ aLast' = [req |-> req, at |-> clock,
                                 resp |-> JsonResponse("IP address not allowed", 403),
                                 api_key |-> ""]
                    /\ UNCHANGED aKeys
               ELSE /\ aLast' = [req |-> req, at |-> clock, resp |-> AuthNone,
                                 api_key |-> k]
                    \* api_key_obj.increment_usage()
                    /\ aKeys' = [aKeys EXCEPT ![k].usage_count = @ + 1,
                                              ![k].last_used_at = clock]
    /\ UNCHANGED <<clock, AuthOthers>>

AuthTick ==
    /\ clock < ATicks
    /\ clock' = clock + 1
    /\ UNCHANGED <<authVars, AuthOthers>>

InitAuth ==
    /\ clock = 0
    /\ \E act \in BOOLEAN, exp \in {NoTime, 1, 2}, ips \in AAllowedChoices, act2 \in BOOLEAN :
          aKeys = [k \in AKeyStrings |->
                     IF k = "bm_a"
                     THEN [is_active |-> act, expires_at |-> exp, allowed_ips |-> ips,
                           usage_count |-> 0, last_used_at |-> NoTime]
                     ELSE [is_active |-> act2, expires_at |-> NoTime, allowed_ips |-> << >>,
                           usage_count |-> 0, last_used_at |-> NoTime]]
    /\ aLast = AuthNoRequest
    /\ aCount = 0
    /\ RLIdle
    /\ KeyIdle
    /\ BillIdle
    /\ ProrIdle
    /\ DiscIdle
    /\ UsageIdle
    /\ AlertIdle
    /\ LifeIdle
    /\ CreateIdle
    /\ TaskIdle
    /\ TeamIdle
    /\ RCIdle
    /\ PriceIdle
    /\ RecordIdle
    /\ RenewIdle
    /\ TrialIdle

NextAuth ==
    \/ \E req \in ARequests : AuthProcessRequest(req)
    \/ AuthTick

SpecAuth == InitAuth /\ [][NextAuth]_vars

\* ---- C3

\* the conditions of the claim, for the last request: a row with the key exists,
\* is active, is not past its expires_at, and the client IP is in its allowed-IP
\* list or that list is empty
C3_KeyAcceptable ==
    \E k \in DOMAIN aKeys :
        /\ k = aLast.req.bearer
        /\ aKeys[k].is_active
        /\ aKeys[k].expires_at = NoTime \/ ~(aLast.at > aKeys[k].expires_at)
        /\ LET list == {Strip(aKeys[k].allowed_ips[i]) : i \in DOMAIN aKeys[k].allowed_ips}
                          \ {AIp("")}
           IN list = {} \/ AuthClientIp(aLast.req) \in list

\* C3: a request with an 'Authorization: Bearer <key>' header passes with
\* request.api_key set only if the key is acceptable (and then it does pass);
\* otherwise it is answered 401 'Invalid API key', 401 'API key has expired' or
\* 403 'IP address not allowed' and request.api_key is not set.
C3_BearerAuthenticated ==
    (aCount > 0 /\ aLast.req.bearer # "") =>
        /\ (aLast.resp = AuthNone /\ aLast.api_key # "") =>
              (C3_KeyAcceptable /\ aLast.api_key = aLast.req.bearer)
        /\ C3_KeyAcceptable => (aLast.resp = AuthNone /\ aLast.api_key # "")
        /\ ~C3_KeyAcceptable =>
              /\ aLast.resp \in {JsonResponse("Invalid API key", 401),
                                 JsonResponse("API key has expired", 401),
                                 JsonResponse("IP address not allowed", 403)}
              /\ aLast.api_key = ""

\* a request is refused for its IP address: the key is active and not expired,
\* its list names addresses, and the client address is not one of them
C3_Witness ==
    /\ aCount > 0
    /\ aLast.req.bearer = "bm_a"
    /\ aLast.resp = JsonResponse("IP address not allowed", 403)
    /\ aKeys["bm_a"].expires_at = aLast.at

\* ================================================================ billing
\* apps/subscriptions: management/commands/process_billing.py,
\* BillingCalculator.generate_invoice, SubscriptionInvoice.save

BTicks == 1
BMaxRuns == 2

\* the time zone of settings.TIME_ZONE, Asia/Kolkata, is UTC+05:30
TzOffset == 11

\* the calendar day of t in the current time zone: what a __date lookup compares
LocalDay(t) == (t + TzOffset) \div DAY

\* datetime.now().strftime('%Y%m'): time 0 is 2026-11-01 00:00 UTC, and the
\* times of the model lie in November and December 2026
MonthStamp(t) == IF LocalDay(t) < 30 THEN 202611 ELSE 202612

\* the run starts late in the UTC day, when the local day is already the next one
BClock0 == DAY - 4 * HOUR

\* timedelta(days = n)
Days(n) == n * DAY

\* OrganizationSubscription.calculate_period_end, as the length added to the start
PeriodDays(billing_interval) ==
    IF billing_interval = "monthly" THEN 30
    ELSE IF billing_interval = "yearly" THEN 365
    ELSE IF billing_interval = "quarterly" THEN 90
    ELSE 30

CalculatePeriodEnd(start, billing_interval) == start + Days(PeriodDays(billing_interval))

\* the branches of process_billing that choose the next period's length
BillingDays(billing_interval) ==
    IF billing_interval = "monthly" THEN 30
    ELSE IF billing_interval = "yearly" THEN 365
    ELSE 30

\* ---- invoice numbers: 'INV-' + stamp + '-' + num, num a string of digits

RECURSIVE Digits(_)
Digits(n) == IF n < 10 THEN <<n>> ELSE Append(Digits(n \div 10), n % 10)

\* f'{n:04d}'
Format04d(n) ==
    LET d == Digits(n)
        pad == IF Len(d) >= 4 THEN 0 ELSE 4 - Len(d)
    IN [i \in 1..(pad + Len(d)) |-> IF i <= pad THEN 0 ELSE d[i - pad]]

\* int(s) of a string of digits
RECURSIVE ParseInt(_)
ParseInt(d) ==
    IF Len(d) = 0 THEN 0
    ELSE 10 * ParseInt(SubSeq(d, 1, Len(d) - 1)) + d[Len(d)]

\* a < b as strings
RECURSIVE StrLess(_, _)
StrLess(a, b) ==
    IF Len(b) = 0 THEN FALSE
    ELSE IF Len(a) = 0 THEN TRUE
    ELSE IF a[1] # b[1] THEN a[1] < b[1]
    ELSE StrLess(Tail(a), Tail(b))

NoNumber == [stamp |-> 0, num |-> << >>]

\* SubscriptionInvoice.generate_invoice_number
GenerateInvoiceNumber(invoices, now) ==
    LET date_str == MonthStamp(now)
        month == {i \in invoices : i.invoice_number.stamp = date_str}
    IN IF month = {}
       THEN [stamp |-> date_str, num |-> Format04d(1)]
       ELSE LET last_invoice ==
                    CHOOSE i \in month :
                        \A j \in month :
                            ~StrLess(i.invoice_number.num, j.invoice_number.num)
            IN [stamp |-> date_str,
                num |-> Format04d(ParseInt(last_invoice.invoice_number.num) + 1)]

\* ---- the rows

BIntervals == {"monthly", "yearly", "quarterly", "one_time"}
BSubIds == {1, 2}
BRuns == {"run1", "run2"}

\* the rows loaded by a queryset ordered by -created_at (ids grow with created_at)
RECURSIVE NewestFirst(_, _)
NewestFirst(rows, ids) ==
    IF ids = {} THEN << >>
    ELSE LET m == CHOOSE x \in ids : \A y \in ids : y <= x
         IN <<[id |-> m, row |-> rows[m]]>> \o NewestFirst(rows, ids \ {m})

\* filter(status='active', next_billing_date__date=target_date.date())
DueForBilling(rows, now, days_ahead) ==
    {s \in DOMAIN rows :
        /\ rows[s].status = "active"
        /\ rows[s].next_billing_date # NoTime
        /\ LocalDay(rows[s].next_billing_date) = DayStamp(now + Days(days_ahead))}

BIdleRun == [pc |-> "idle", queue |-> << >>, number |-> NoNumber]

BDueDates == {BClock0 - 5 * HOUR, BClock0, BClock0 + DAY}

BSubRow(billing_interval, status, due, used) ==
    [billing_interval |-> billing_interval,
     status |-> status,
     current_period_start |-> due - Days(PeriodDays(billing_interval)),
     current_period_end |-> due,
     next_billing_date |-> IF status = "active" THEN due ELSE NoTime,
     api_calls_used |-> used]

BSubChoices ==
    {BSubRow(b, "active", d, u) : b \in BIntervals, d \in BDueDates, u \in {0, 3}}
        \cup {BSubRow("monthly", "trial", BClock0, 3)}

\* the invoices of the month with the greatest numbers; the rows below them are not read
BInvoiceRow(n, s, start, end) ==
    [invoice_number |-> n, subscription |-> s, period_start |-> start, period_end |-> end]

BInvoiceSeeds ==
    {{},
     {BInvoiceRow([stamp |-> MonthStamp(BClock0), num |-> Format04d(1)], 1,
                  BClock0 - Days(60), BClock0 - Days(30))},
     {BInvoiceRow([stamp |-> MonthStamp(BClock0), num |-> Format04d(9999)], 1,
                  BClock0 - Days(60), BClock0 - Days(30))}}

InitBilling ==
    /\ clock = BClock0
    /\ bSubs \in [BSubIds -> BSubChoices]
    /\ bInvoices \in BInvoiceSeeds
    /\ bRun = [r \in BRuns |-> BIdleRun]
    /\ bRenewals = {}
    /\ bFailed = 0
    /\ bCount = 0
    /\ RLIdle
    /\ KeyIdle
    /\ AuthIdle
    /\ ProrIdle
    /\ DiscIdle
    /\ UsageIdle
    /\ AlertIdle
    /\ LifeIdle
    /\ CreateIdle
    /\ TaskIdle
    /\ TeamIdle
    /\ RCIdle
    /\ PriceIdle
    /\ RecordIdle
    /\ RenewIdle
    /\ TrialIdle

\* Command.handle up to the loop: the queryset is evaluated once, when the loop starts
BHandle(r, dry_run, days_ahead) ==
    /\ bRun[r].pc = "idle"
    /\ bCount < BMaxRuns
    /\ bCount' = bCount + 1
    /\ LET subscriptions == NewestFirst(bSubs, DueForBilling(bSubs, clock, days_ahead))
       IN IF dry_run \/ subscriptions = << >>
          THEN UNCHANGED bRun
          ELSE bRun' = [bRun EXCEPT ![r] =
                           [pc |-> "loop", queue |-> subscriptions, number |-> NoNumber]]
    /\ UNCHANGED <<clock, bSubs, bInvoices, bRenewals, bFailed, BillOthers>>

\* generate_invoice -> SubscriptionInvoice.save: the number is read off the table
BGenerateNumber(r) ==
    /\ bRun[r].pc = "loop"
    /\ bRun' = [bRun EXCEPT ![r].pc = "insert",
                            ![r].number = GenerateInvoiceNumber(bInvoices, clock)]
    /\ UNCHANGED <<clock, bSubs, bInvoices, bRenewals, bFailed, bCount, BillOthers>>

\* the INSERT of the invoice (invoice_number is unique) and the rest of the iteration
BInsertAndRenew(r) ==
    /\ bRun[r].pc = "insert"
    /\ LET subscription == Head(bRun[r].queue)
           rest == Tail(bRun[r].queue)
           row == subscription.row
           invoice == BInvoiceRow(bRun[r].number, subscription.id,
                                  row.current_period_start, row.current_period_end)
           next_period_start == row.current_period_end
           next_period_end == next_period_start + Days(BillingDays(row.billing_interval))
           saved == [row EXCEPT !.current_period_start = next_period_start,
                                !.current_period_end = next_period_end,
                                !.next_billing_date = next_period_end]
       IN /\ bRun' = [bRun EXCEPT ![r] =
                         [pc |-> IF rest = << >> THEN "idle" ELSE "loop",
                          queue |-> rest, number |-> NoNumber]]
          /\ IF \E i \in bInvoices : i.invoice_number = bRun[r].number
             THEN \* IntegrityError, caught by the loop's except
                  /\ bFailed' = bFailed + 1
                  /\ UNCHANGED <<bSubs, bInvoices, bRenewals>>
             ELSE /\ bInvoices' = bInvoices \cup {invoice}
                  /\ bSubs' = [bSubs EXCEPT ![subscription.id] = saved]
                  /\ bRenewals' = bRenewals \cup
                        {[sub |-> subscription.id, before |-> row, after |-> saved,
                          invoice |-> invoice]}
                  /\ UNCHANGED bFailed
    /\ UNCHANGED <<clock, bCount, BillOthers>>

BTick ==
    /\ clock < BClock0 + BTicks
    /\ clock' = clock + 1
    /\ UNCHANGED <<billVars, BillOthers>>

NextBilling ==
    \/ \E r \in BRuns, dry_run \in BOOLEAN, days_ahead \in {0, 1} : BHandle(r, dry_run, days_ahead)
    \/ \E r \in BRuns : BGenerateNumber(r)
    \/ \E r \in BRuns : BInsertAndRenew(r)
    \/ BTick

SpecBilling == InitBilling /\ [][NextBilling]_vars

\* C4: every renewal process_billing carries out bills the period that was
\* current, starts the next period where that one ended, ends it where
\* calculate_period_end puts the end of a period with that start (30 days
\* monthly, 365 yearly, 90 quarterly), and sets next_billing_date to that end.
C4_RenewalFollowsPeriodEnd ==
    \A h \in bRenewals :
        /\ h.invoice \in bInvoices
        /\ h.invoice.period_start = h.before.current_period_start
        /\ h.invoice.period_end = h.before.current_period_end
        /\ h.after.current_period_start = h.before.current_period_end
        /\ h.after.current_period_end =
              CalculatePeriodEnd(h.after.current_period_start, h.after.billing_interval)
        /\ h.after.next_billing_date = h.after.current_period_end

\* C5: no two invoices being saved, and no invoice being saved and invoice
\* in the table, carry the same invoice number, so no save runs into the
\* unique constraint.
C5_UniqueInvoiceNumbers ==
    /\ \A r1, r2 \in DOMAIN bRun :
          (r1 # r2 /\ bRun[r1].pc = "insert" /\ bRun[r2].pc = "insert")
              => bRun[r1].number # bRun[r2].number
    /\ \A r \in DOMAIN bRun :
          bRun[r].pc = "insert"
              => \A i \in bInvoices : i.invoice_number # bRun[r].number
    /\ bFailed = 0

\* C10: a subscription whose billing period was renewed starts the new
\* period with api_calls_used = 0.
C10_RenewalResetsUsage ==
    \A h \in bRenewals : h.after.api_calls_used = 0
\* ============================================================== proration
\* BillingCalculator.calculate_upgrade_proration (apps/subscriptions/utils.py)

PTicks == 2
PMaxCalls == 2

\* timedelta.days: whole days, rounded down
TimedeltaDays(d) == d \div DAY

\* OrganizationSubscription.effective_price
EffectivePrice(custom_price, plan_price) ==
    IF ~custom_price.null THEN custom_price.amount ELSE plan_price

\* BillingCalculator.calculate_upgrade_proration; upgrade_date = NoTime is None
CalculateUpgradeProration(subscription, new_price, upgrade_date, now) ==
    LET date == IF upgrade_date = NoTime THEN now ELSE upgrade_date
        days_remaining == TimedeltaDays(subscription.current_period_end - date)
        total_days == TimedeltaDays(subscription.current_period_end
                                        - subscription.current_period_start)
        price == EffectivePrice(subscription.custom_price, subscription.plan_price)
    IN IF total_days <= 0
       THEN [upgrade_date |-> date, new_price |-> new_price,
             credit_amount |-> Ratio(0, 1),
             new_charge |-> Ratio(new_price, 1),
             proration_days |-> 0]
       ELSE [upgrade_date |-> date, new_price |-> new_price,
             credit_amount |-> Ratio(price * days_remaining, total_days),
             new_charge |-> Ratio(new_price * days_remaining, total_days),
             proration_days |-> days_remaining]

PPeriodStart == Days(1)
PPlanPrices == {9900}
PNewPrices == {19900, 0}
PCustomPrices == {NoPrice, Price(0), Price(5000)}

\* a 30-day period, and a row whose period was edited to be empty
PSubChoices ==
    {[current_period_start |-> PPeriodStart, current_period_end |-> e,
      custom_price |-> c, plan_price |-> p] :
        e \in {PPeriodStart + Days(30), PPeriodStart}, c \in PCustomPrices, p \in PPlanPrices}

\* the calls start just before the end of the 30-day period
PClock0 == PPeriodStart + Days(30) - 1

PUpgradeDates ==
    {NoTime, PPeriodStart - DAY, PPeriodStart, PPeriodStart + Days(10) + 1,
     PPeriodStart + Days(30), PPeriodStart + Days(30) + 1}

InitProration ==
    /\ clock = PClock0
    /\ pSub \in PSubChoices
    /\ pOut = ProrNoCall
    /\ pCount = 0
    /\ RLIdle
    /\ KeyIdle
    /\ AuthIdle
    /\ BillIdle
    /\ DiscIdle
    /\ UsageIdle
    /\ AlertIdle
    /\ LifeIdle
    /\ CreateIdle
    /\ TaskIdle
    /\ TeamIdle
    /\ RCIdle
    /\ PriceIdle
    /\ RecordIdle
    /\ RenewIdle
    /\ TrialIdle

PCalculate(new_price, upgrade_date) ==
    /\ pCount < PMaxCalls
    /\ pCount' = pCount + 1
    /\ pOut' = CalculateUpgradeProration(pSub, new_price, upgrade_date, clock)
    /\ UNCHANGED <<clock, pSub, ProrOthers>>

PTick ==
    /\ clock < PClock0 + PTicks
    /\ clock' = clock + 1
    /\ UNCHANGED <<prorVars, ProrOthers>>

NextProration ==
    \/ \E new_price \in PNewPrices, upgrade_date \in PUpgradeDates :
          PCalculate(new_price, upgrade_date)
    \/ PTick

SpecProration == InitProration /\ [][NextProration]_vars

\* C6: the credit_amount calculate_upgrade_proration returns is at least 0
\* and at most the subscription's effective price.
C6_CreditWithinPrice ==
    pCount > 0 =>
        /\ pOut.credit_amount.num >= 0
        /\ pOut.credit_amount.num
              <= EffectivePrice(pSub.custom_price, pSub.plan_price) * pOut.credit_amount.den
\* =============================================================== discounts
\* SubscriptionManager.create_subscription (apps/subscriptions/utils.py) and
\* SubscriptionDiscount (apps/subscriptions/models.py).  The database is
\* PostgreSQL at READ COMMITTED: a transaction reads what is committed and
\* its own writes become visible to the others when it commits.

DTicks == 1
DMaxCreates == 3

DClock0 == Days(2)
DWorkers == {"w1", "w2"}
DOrgs == {"org1", "org2", "org3"}
\* each call is for an organization that has no subscription yet, in this order
DOrgOrder == <<"org1", "org2", "org3">>
DPlans ==
    [basic |-> [price |-> 10000, trial_days |-> 0, billing_interval |-> "monthly"],
     pro |-> [price |-> 30000, trial_days |-> 14, billing_interval |-> "yearly"]]

\* max_redemptions that is NULL
NoLimit == -1

\* SubscriptionDiscount.is_valid; None and 0 are both false in `if self.max_redemptions and ...`
DiscountIsValid(discount, now) ==
    /\ discount.is_active
    /\ ~(now < discount.valid_from)
    /\ ~(discount.valid_until # NoTime /\ now > discount.valid_until)
    /\ ~(/\ discount.max_redemptions # NoLimit
         /\ discount.max_redemptions # 0
         /\ discount.current_redemptions >= discount.max_redemptions)

\* SubscriptionDiscount.can_apply_to_plan
CanApplyToPlan(discount, plan) ==
    discount.applicable_plans = {} \/ plan \in discount.applicable_plans

\* the subscription create_subscription builds before it looks at the discount code
NewSubscription(organization, plan, trial_days, now) ==
    LET days == IF trial_days # 0 THEN trial_days ELSE DPlans[plan].trial_days
        trial_end_date == IF days # 0 THEN now + Days(days) ELSE NoTime
        status == IF trial_end_date # NoTime THEN "trial" ELSE "active"
    IN [organization |-> organization,
        plan |-> plan,
        status |-> status,
        trial_end_date |-> trial_end_date,
        current_period_start |-> now,
        current_period_end |-> now + Days(30),
        next_billing_date |-> IF status = "active" THEN now + Days(30) ELSE NoTime,
        custom_price |-> NoPrice]

\* the branch of create_subscription that applies a valid discount to the subscription
ApplyDiscount(subscription, discount, now) ==
    LET price == DPlans[subscription.plan].price
    IN IF discount.discount_type = "fixed_amount"
       THEN [subscription EXCEPT
                !.custom_price = Price(Max(price - discount.amount_off, 0))]
       ELSE IF discount.discount_type = "percentage"
       THEN \* the prices are whole units, so the product has two decimal places
            [subscription EXCEPT
                !.custom_price = Price((price * (100 - discount.percentage_off)) \div 100)]
       ELSE IF discount.discount_type = "free_trial" /\ discount.free_trial_days # 0
       THEN IF subscription.trial_end_date # NoTime
            THEN [subscription EXCEPT
                     !.trial_end_date = @ + Days(discount.free_trial_days)]
            ELSE [subscription EXCEPT
                     !.trial_end_date = now + Days(discount.free_trial_days),
                     !.status = "trial"]
       ELSE subscription

DNoSubscription == NewSubscription("", "basic", 0, 0)

DNoTxn(discount) == [pc |-> "idle", subscription |-> DNoSubscription, discount |-> discount]

DDiscountTypes ==
    {[discount_type |-> "fixed_amount", amount_off |-> 20000, percentage_off |-> 0,
      free_trial_days |-> 0],
     [discount_type |-> "percentage", amount_off |-> 0, percentage_off |-> 50,
      free_trial_days |-> 0],
     [discount_type |-> "free_trial", amount_off |-> 0, percentage_off |-> 0,
      free_trial_days |-> 7]}

DDiscountRow(t, m, c, a, u, ap) ==
    [is_active |-> a, valid_from |-> DClock0 - 1, valid_until |-> u,
     max_redemptions |-> m, current_redemptions |-> c, applicable_plans |-> ap,
     discount_type |-> t.discount_type, amount_off |-> t.amount_off,
     percentage_off |-> t.percentage_off, free_trial_days |-> t.free_trial_days]

\* the rows of the code: usable ones of every type and limit, with no more redemptions
\* counted than the limit allows, and rows that are switched off, about to end, or
\* restricted to one plan
DDiscountChoices ==
    {DDiscountRow(t, m, c, TRUE, NoTime, {}) :
        t \in DDiscountTypes, m \in {NoLimit, 1, 2}, c \in {0, 1}}
    \cup {DDiscountRow(t, 0, 0, TRUE, NoTime, {}) : t \in DDiscountTypes}
    \cup {DDiscountRow(t, 2, 0, FALSE, NoTime, {}) : t \in DDiscountTypes}
    \cup {DDiscountRow(t, 2, 0, TRUE, DClock0, {}) : t \in DDiscountTypes}
    \cup {DDiscountRow(t, 2, 0, TRUE, NoTime, {"pro"}) : t \in DDiscountTypes}

InitDiscount ==
    /\ clock = DClock0
    /\ dDiscount \in DDiscountChoices
    /\ dSubs = {}
    /\ dTxn = [w \in DWorkers |-> DNoTxn(dDiscount)]
    /\ dRedeemed = {}
    /\ dCount = 0
    /\ RLIdle
    /\ KeyIdle
    /\ AuthIdle
    /\ BillIdle
    /\ ProrIdle
    /\ UsageIdle
    /\ AlertIdle
    /\ LifeIdle
    /\ CreateIdle
    /\ TaskIdle
    /\ TeamIdle
    /\ RCIdle
    /\ PriceIdle
    /\ RecordIdle
    /\ RenewIdle
    /\ TrialIdle

\* create_subscription up to the check of the code: the subscription is created and the
\* discount row is read; without a code to apply the transaction runs to its commit
DCreateBegin(w, organization, plan, with_code, trial_days) ==
    /\ dTxn[w].pc = "idle"
    /\ dCount < DMaxCreates
    /\ \E i \in 1..Len(DOrgOrder) : i = dCount + 1 /\ organization = DOrgOrder[i]
    /\ dCount' = dCount + 1
    /\ LET subscription == NewSubscription(organization, plan, trial_days, clock)
       IN IF with_code /\ DiscountIsValid(dDiscount, clock) /\ CanApplyToPlan(dDiscount, plan)
          THEN /\ dTxn' = [dTxn EXCEPT ![w] =
                              [pc |-> "apply",
                               subscription |-> ApplyDiscount(subscription, dDiscount, clock),
                               discount |-> dDiscount]]
               /\ UNCHANGED dSubs
          ELSE /\ dSubs' = dSubs \cup {subscription}
               /\ UNCHANGED dTxn
    /\ UNCHANGED <<clock, dDiscount, dRedeemed, DiscOthers>>

\* subscription.save(), discount.current_redemptions += 1, discount.save() and the commit:
\* the discount row is written from the object read at the start
DCreateFinish(w) ==
    /\ dTxn[w].pc = "apply"
    /\ dSubs' = dSubs \cup {dTxn[w].subscription}
    /\ dDiscount' = [dTxn[w].discount EXCEPT !.current_redemptions = @ + 1]
    /\ dRedeemed' = dRedeemed \cup
          {[organization |-> dTxn[w].subscription.organization,
            found |-> dDiscount.current_redemptions]}
    /\ dTxn' = [dTxn EXCEPT ![w] = DNoTxn(dDiscount')]
    /\ UNCHANGED <<clock, dCount, DiscOthers>>

DTick ==
    /\ clock < DClock0 + DTicks
    /\ clock' = clock + 1
    /\ UNCHANGED <<discVars, DiscOthers>>

NextDiscount ==
    \/ \E w \in DWorkers, organization \in DOrgs, plan \in DOMAIN DPlans,
          with_code \in BOOLEAN, trial_days \in {0, 14} :
          DCreateBegin(w, organization, plan, with_code, trial_days)
    \/ \E w \in DWorkers : DCreateFinish(w)
    \/ DTick

SpecDiscount == InitDiscount /\ [][NextDiscount]_vars

\* C7: with max_redemptions set, current_redemptions never exceeds it, and
\* every creation that applied the discount and counted a redemption did so
\* while the count in the table was still below max_redemptions.
C7_RedemptionsWithinMax ==
    dDiscount.max_redemptions # NoLimit =>
        /\ dDiscount.current_redemptions <= dDiscount.max_redemptions
        /\ \A a \in dRedeemed : a.found < dDiscount.max_redemptions

\* ============================================================ usage limits
\* UsageTracker.check_usage_limits and create_usage_alert
\* (apps/subscriptions/utils.py), OrganizationSubscription.get_usage_summary

UMaxChecks == 2

\* the keys of get_usage_summary, in the order of the dict
UUsageTypes == <<"api_calls", "storage", "users", "api_keys">>

\* Organization.member_count
MemberCount(members) == Cardinality({m \in members : m.is_active})

\* calculate_usage_percentage: min((used / limit) * 100, 100), and 0 for a limit of 0;
\* the quotient is kept exact
UsagePercentage(used, limit) ==
    IF limit = 0 THEN Ratio(0, 1)
    ELSE IF used * 100 >= 100 * limit THEN Ratio(100, 1)
    ELSE Ratio(used * 100, limit)

\* OrganizationSubscription.get_usage_summary; storage is counted in hundredths of a GB
GetUsageSummary(sub, members) ==
    [api_calls |-> [used |-> sub.api_calls_used, limit |-> sub.max_api_calls_per_month,
                    percentage |-> UsagePercentage(sub.api_calls_used,
                                                   sub.max_api_calls_per_month)],
     storage |-> [used |-> sub.storage_used, limit |-> sub.max_storage_gb * 100,
                  percentage |-> UsagePercentage(sub.storage_used, sub.max_storage_gb * 100)],
     users |-> [used |-> MemberCount(members), limit |-> sub.max_users,
                percentage |-> UsagePercentage(MemberCount(members), sub.max_users)],
     api_keys |-> [used |-> sub.api_key_count, limit |-> sub.max_api_keys,
                   percentage |-> UsagePercentage(sub.api_key_count, sub.max_api_keys)]]

\* (mutant) a percentage that equals the threshold does not reach it
PercentageAtLeast_Above(percentage, threshold) ==
    percentage.num > threshold * percentage.den

\* percentage >= threshold
PercentageAtLeast(percentage, threshold) ==
    percentage.num >= threshold * percentage.den

\* the branch check_usage_limits takes for one usage type: the alert it creates, 0 for none;
\* the summary never holds the keys alert_sent_100 and alert_sent_80
AlertFor(usage_data) ==
    IF PercentageAtLeast(usage_data.percentage, 100) THEN 100
    ELSE IF PercentageAtLeast(usage_data.percentage, 80) THEN 80
    ELSE 0

\* create_usage_alert: the event
UsageAlertEvent(usage_type, percentage) ==
    [event_type |-> IF percentage >= 100 THEN "usage_limit_exceeded" ELSE "usage_warning",
     usage_type |-> usage_type,
     percentage |-> percentage]

\* create_usage_alert: the members it notifies
MembersToNotify(members) ==
    {m \in members : m.is_active /\ m.role \in {"owner", "admin"}}

RECURSIVE UserOrder(_)
UserOrder(users) ==
    IF users = {} THEN << >>
    ELSE LET u == CHOOSE x \in users : \A y \in users : x.user <= y.user
         IN <<u>> \o UserOrder(users \ {u})

\* create_usage_alert: the notifications
UsageAlertNotifs(members, usage_type, percentage) ==
    LET to == UserOrder(MembersToNotify(members))
    IN [i \in 1..Len(to) |->
           [user |-> to[i].user, usage_type |-> usage_type, percentage |-> percentage,
            notification_type |-> IF percentage < 100 THEN "warning" ELSE "error"]]

\* check_usage_limits: the events and notifications of the first n usage types
RECURSIVE AlertsUpTo(_, _, _)
AlertsUpTo(summary, members, n) ==
    IF n = 0 THEN [events |-> << >>, notifs |-> << >>]
    ELSE LET before == AlertsUpTo(summary, members, n - 1)
             usage_type == UUsageTypes[n]
             alert == AlertFor(summary[usage_type])
         IN IF alert = 0 THEN before
            ELSE [events |-> Append(before.events, UsageAlertEvent(usage_type, alert)),
                  notifs |-> before.notifs \o UsageAlertNotifs(members, usage_type, alert)]

UMemberChoices ==
    {{[user |-> 1, role |-> "owner", is_active |-> TRUE]},
     {[user |-> 1, role |-> "owner", is_active |-> TRUE],
      [user |-> 2, role |-> "admin", is_active |-> TRUE],
      [user |-> 3, role |-> "admin", is_active |-> FALSE],
      [user |-> 4, role |-> "member", is_active |-> TRUE],
      [user |-> 5, role |-> "viewer", is_active |-> TRUE]}}

\* used and limit of one usage type: no limit, below 80%, at 80%, between, at 100%, above
UUsageChoices ==
    {<<3, 0>>, <<79, 100>>, <<4, 5>>, <<99, 100>>, <<5, 5>>, <<7, 5>>}

USubChoices ==
    {[api_calls_used |-> a[1], max_api_calls_per_month |-> a[2],
      storage_used |-> s[1] * 100, max_storage_gb |-> s[2],
      max_users |-> u,
      api_key_count |-> k[1], max_api_keys |-> k[2]] :
        a \in UUsageChoices, s \in UUsageChoices, u \in {0, 1, 5, 10}, k \in UUsageChoices}

InitUsage ==
    /\ clock = 0
    /\ uSub \in USubChoices
    /\ uMembers \in UMemberChoices
    /\ uEvents = << >>
    /\ uNotifs = << >>
    /\ uLast = [summary |-> GetUsageSummary(uSub, uMembers),
                events |-> << >>, notifs |-> << >>]
    /\ uCount = 0
    /\ RLIdle
    /\ KeyIdle
    /\ AuthIdle
    /\ BillIdle
    /\ ProrIdle
    /\ DiscIdle
    /\ AlertIdle
    /\ LifeIdle
    /\ CreateIdle
    /\ TaskIdle
    /\ TeamIdle
    /\ RCIdle
    /\ PriceIdle
    /\ RecordIdle
    /\ RenewIdle
    /\ TrialIdle

\* UsageTracker.check_usage_limits(subscription)
UCheckUsageLimits ==
    /\ uCount < UMaxChecks
    /\ uCount' = uCount + 1
    /\ LET usage_summary == GetUsageSummary(uSub, uMembers)
           alerts == AlertsUpTo(usage_summary, uMembers, Len(UUsageTypes))
       IN /\ uEvents' = uEvents \o alerts.events
          /\ uNotifs' = uNotifs \o alerts.notifs
          /\ uLast' = [summary |-> usage_summary,
                       events |-> alerts.events, notifs |-> alerts.notifs]
    /\ UNCHANGED <<clock, uSub, uMembers, UsageOthers>>

NextUsage == UCheckUsageLimits

SpecUsage == InitUsage /\ [][NextUsage]_vars
\* the events and the notifications the last check created for one usage type
ULastEvents(usage_type) ==
    SelectSeq(uLast.events, LAMBDA e : e.usage_type = usage_type)
ULastNotifs(usage_type) ==
    SelectSeq(uLast.notifs, LAMBDA n : n.usage_type = usage_type)

\* C8: for every usage type of the summary, check_usage_limits creates one
\* 100% alert when the usage is at least 100% of the limit, otherwise one 80%
\* alert when it is at least 80%, and no alert below 80% (or without a
\* limit); an alert is one event and one notification for each active owner
\* and admin.
C8_AlertsAt80And100 ==
    uCount > 0 =>
        \A i \in 1..Len(UUsageTypes) :
            LET usage_type == UUsageTypes[i]
                d == uLast.summary[usage_type]
                full == d.limit # 0 /\ d.used >= d.limit
                high == d.limit # 0 /\ d.used * 100 >= 80 * d.limit
                events == ULastEvents(usage_type)
                notifs == ULastNotifs(usage_type)
                expected == IF full THEN 100 ELSE 80
            IN IF high
               THEN /\ Len(events) = 1
                    /\ events[1].percentage = expected
                    /\ events[1].event_type =
                          (IF full THEN "usage_limit_exceeded" ELSE "usage_warning")
                    /\ Len(notifs) = Cardinality(MembersToNotify(uMembers))
                    /\ \A j \in 1..Len(notifs) : notifs[j].percentage = expected
               ELSE Len(events) = 0 /\ Len(notifs) = 0

\* a check that met a usage of exactly 80%, one of 100% or more and one below 80%, and
\* alerted two members
C8_Witness ==
    /\ uCount > 0
    /\ \E t \in DOMAIN uLast.summary :
          /\ uLast.summary[t].limit # 0
          /\ uLast.summary[t].used * 100 = 80 * uLast.summary[t].limit
          /\ Len(ULastEvents(t)) = 1
          /\ ULastEvents(t)[1].percentage = 80
          /\ Len(ULastNotifs(t)) = 2
    /\ \E t \in DOMAIN uLast.summary :
          /\ uLast.summary[t].used > uLast.summary[t].limit
          /\ Len(ULastEvents(t)) = 1
          /\ ULastEvents(t)[1].percentage = 100
    /\ \E t \in DOMAIN uLast.summary :
          /\ uLast.summary[t].limit # 0
          /\ uLast.summary[t].used > 0
          /\ Len(ULastEvents(t)) = 0
\* ============================================================ usage alerts
\* send_usage_alerts (apps/subscriptions/tasks.py), run by celery beat every hour

AlTicks == 4
AlMaxRuns == 3

\* the beat schedule of the task: 3600.0 seconds
AlSchedule == HOUR

\* the alert threshold send_usage_alerts picks for a percentage, 0 for none
AlertThreshold(percentage) ==
    IF PercentageAtLeast(percentage, 95) THEN 95
    ELSE IF PercentageAtLeast(percentage, 80) THEN 80
    ELSE 0

\* SubscriptionEvent.objects.filter(subscription=..., event_type='usage_warning',
\*     created_at__date=today, metadata__usage_type=..., metadata__threshold=...).exists()
\* with today = timezone.now().date(), the date of the UTC time; the __date lookup
\* takes the date of created_at in the current time zone
ExistingAlert(events, subscription, usage_type, alert_threshold, now) ==
    LET today == DayStamp(now)
    IN \E i \in 1..Len(events) :
          /\ events[i].subscription = subscription
          /\ events[i].event_type = "usage_warning"
          /\ LocalDay(events[i].created_at) = today
          /\ events[i].usage_type = usage_type
          /\ events[i].threshold = alert_threshold

\* the body of the inner loop for one subscription and usage type; db holds the rows
\* created so far
AlertStep(db, subscription, owner, usage_type, usage_data, now) ==
    LET alert_threshold == AlertThreshold(usage_data.percentage)
    IN IF alert_threshold = 0 THEN db
       ELSE IF ExistingAlert(db.events, subscription, usage_type, alert_threshold, now)
       THEN db
       ELSE [events |-> Append(db.events,
                           [subscription |-> subscription, event_type |-> "usage_warning",
                            created_at |-> now, usage_type |-> usage_type,
                            threshold |-> alert_threshold,
                            percentage |-> usage_data.percentage]),
             notifs |-> Append(db.notifs,
                           [user |-> owner, subscription |-> subscription,
                            usage_type |-> usage_type,
                            notification_type |->
                                IF alert_threshold < 95 THEN "warning" ELSE "error"]),
             emails |-> Append(db.emails,
                           [subscription |-> subscription, template_name |-> "usage_alert",
                            usage_type |-> usage_type, threshold |-> alert_threshold])]

\* the inner loop over the first n usage types of one subscription
RECURSIVE AlertTypes(_, _, _, _, _)
AlertTypes(db, subs, id, n, now) ==
    IF n = 0 THEN db
    ELSE AlertStep(AlertTypes(db, subs, id, n - 1, now), id, subs[id].owner,
                   UUsageTypes[n],
                   GetUsageSummary(subs[id].usage, subs[id].members)[UUsageTypes[n]], now)

\* the outer loop over the subscriptions in ids, newest first
RECURSIVE AlertSubscriptions(_, _, _, _)
AlertSubscriptions(db, subs, ids, now) ==
    IF ids = {} THEN db
    ELSE LET id == CHOOSE x \in ids : \A y \in ids : y <= x
         IN AlertSubscriptions(AlertTypes(db, subs, id, Len(UUsageTypes), now),
                               subs, ids \ {id}, now)

\* the runs start in the morning (UTC), or in the evening when the local date is
\* already the next day
AlClocks == {10 * HOUR, 19 * HOUR}

AlUsage(a, s) ==
    [api_calls_used |-> a[1], max_api_calls_per_month |-> a[2],
     storage_used |-> s[1] * 100, max_storage_gb |-> s[2],
     max_users |-> 5, api_key_count |-> 1, max_api_keys |-> 0]

\* API calls below 80%, at 80%, at 95% and over the limit; storage empty or at 80%
AlSubChoices ==
    {[status |-> st, owner |-> 1, usage |-> AlUsage(a, s),
      members |-> {[user |-> 1, role |-> "owner", is_active |-> TRUE]}] :
        st \in {"active", "trial", "cancelled"},
        a \in {<<79, 100>>, <<4, 5>>, <<19, 20>>, <<7, 5>>},
        s \in {<<0, 5>>, <<4, 5>>}}

AlSubIds == {1, 2}

InitAlerts ==
    /\ clock \in AlClocks
    /\ alSubs \in [AlSubIds -> AlSubChoices]
    /\ alEvents = << >>
    /\ alNotifs = << >>
    /\ alEmails = << >>
    /\ alLastRun = NoTime
    /\ alRuns = 0
    /\ RLIdle
    /\ KeyIdle
    /\ AuthIdle
    /\ BillIdle
    /\ ProrIdle
    /\ DiscIdle
    /\ UsageIdle
    /\ LifeIdle
    /\ CreateIdle
    /\ TaskIdle
    /\ TeamIdle
    /\ RCIdle
    /\ PriceIdle
    /\ RecordIdle
    /\ RenewIdle
    /\ TrialIdle

\* one run of send_usage_alerts
SendUsageAlerts ==
    /\ alRuns < AlMaxRuns
    /\ alLastRun = NoTime \/ clock >= alLastRun + AlSchedule
    /\ alRuns' = alRuns + 1
    /\ alLastRun' = clock
    /\ LET active_subscriptions ==
               {id \in DOMAIN alSubs : alSubs[id].status \in {"trial", "active"}}
           db == AlertSubscriptions(
                     [events |-> alEvents, notifs |-> alNotifs, emails |-> alEmails],
                     alSubs, active_subscriptions, clock)
       IN /\ alEvents' = db.events
          /\ alNotifs' = db.notifs
          /\ alEmails' = db.emails
    /\ UNCHANGED <<clock, alSubs, AlertOthers>>

AlTick ==
    /\ \E c \in AlClocks : c <= clock /\ clock < c + AlTicks
    /\ clock' = clock + 1
    /\ UNCHANGED <<alertVars, AlertOthers>>

NextAlerts ==
    \/ SendUsageAlerts
    \/ AlTick

SpecAlerts == InitAlerts /\ [][NextAlerts]_vars

\* C9: no two alerts for the same subscription, usage type and threshold are
\* sent on the same calendar day; two alerts count as sent on the same day
\* only when they share the date both in UTC and in the project's time zone.
C9_OneAlertPerDay ==
    \A i, j \in 1..Len(alEvents) :
        (/\ i < j
         /\ alEvents[i].subscription = alEvents[j].subscription
         /\ alEvents[i].usage_type = alEvents[j].usage_type
         /\ alEvents[i].threshold = alEvents[j].threshold)
            => ~(/\ DayStamp(alEvents[i].created_at) = DayStamp(alEvents[j].created_at)
                 /\ LocalDay(alEvents[i].created_at) = LocalDay(alEvents[j].created_at))
\* ================================================== cancel and reactivate
\* OrganizationSubscriptionViewSet.cancel / .reactivate (views.py), their
\* serializers (serializers.py) and SubscriptionManager.cancel_subscription /
\* .reactivate_subscription (utils.py).  The requests are well formed: the
\* reason is one of CANCELLATION_REASONS, plan_id is absent or an active plan.

LTicks == 2
LMaxRequests == 3

LClock0 == Days(40)

LStatuses == {"trial", "active", "past_due", "cancelled", "expired", "suspended"}

\* (mutant) an expired subscription is not refused
CancelValidate_OnlyCancelled(status) ==
    IF status \in {"cancelled"}
    THEN "Subscription is already cancelled or expired."
    ELSE ""

\* CancelSubscriptionSerializer.validate: the error, "" when the data is valid
CancelValidate(status) ==
    IF status \in {"cancelled", "expired"}
    THEN "Subscription is already cancelled or expired."
    ELSE ""

\* (mutant) a suspended subscription is refused
ReactivateValidate_NotSuspended(status) ==
    IF status \notin {"cancelled", "expired"}
    THEN "Subscription cannot be reactivated from current status."
    ELSE ""

\* ReactivateSubscriptionSerializer.validate: the error, "" when the data is valid
ReactivateValidate(status) ==
    IF status \notin {"cancelled", "expired", "suspended"}
    THEN "Subscription cannot be reactivated from current status."
    ELSE ""

\* OrganizationSubscription.save: the billing dates it fills in
SubscriptionSave(row) ==
    LET withEnd == IF row.current_period_end = NoTime
                   THEN [row EXCEPT !.current_period_end =
                            CalculatePeriodEnd(row.current_period_start,
                                               DPlans[row.plan].billing_interval)]
                   ELSE row
    IN IF withEnd.next_billing_date = NoTime /\ withEnd.status = "active"
       THEN [withEnd EXCEPT !.next_billing_date = withEnd.current_period_end]
       ELSE withEnd

\* SubscriptionManager.cancel_subscription: the row it saves
CancelSubscription(row, cancel_immediately, now) ==
    SubscriptionSave(
        [row EXCEPT !.status = "cancelled",
                    !.end_date = IF cancel_immediately THEN now ELSE row.current_period_end,
                    !.cancelled_at = now])

\* SubscriptionManager.reactivate_subscription: the row it saves; new_plan_id = "" is None
ReactivateSubscription(row, new_plan_id, now) ==
    SubscriptionSave(
        [row EXCEPT !.plan = IF new_plan_id # "" THEN new_plan_id ELSE row.plan,
                    !.status = "active",
                    !.start_date = now,
                    !.current_period_start = now,
                    !.current_period_end = now + Days(30),
                    !.next_billing_date = now + Days(30),
                    !.end_date = NoTime,
                    !.cancelled_at = NoTime])

LOk == [status |-> 200, error |-> ""]
LBadRequest(error) == [status |-> 400, error |-> error]

\* a subscription in its second 30-day period, in each status
LSubRow(status, plan) ==
    [plan |-> plan,
     status |-> status,
     start_date |-> LClock0 - Days(35),
     end_date |-> IF status \in {"cancelled", "expired"} THEN LClock0 - Days(1) ELSE NoTime,
     cancelled_at |-> IF status = "cancelled" THEN LClock0 - Days(2) ELSE NoTime,
     current_period_start |-> LClock0 - Days(5),
     current_period_end |-> LClock0 + Days(25),
     next_billing_date |-> IF status = "trial" THEN NoTime ELSE LClock0 + Days(25)]

LNoRequest ==
    [op |-> "", cancel_immediately |-> FALSE, plan_id |-> "", at |-> 0, events |-> 0,
     found |-> LSubRow("trial", "basic"), resp |-> LOk]

InitLife ==
    /\ clock = LClock0
    /\ \E st \in LStatuses, plan \in DOMAIN DPlans : lSub = LSubRow(st, plan)
    /\ lEvents = << >>
    /\ lNotifs = << >>
    /\ lLast = LNoRequest
    /\ lCount = 0
    /\ RLIdle
    /\ KeyIdle
    /\ AuthIdle
    /\ BillIdle
    /\ ProrIdle
    /\ DiscIdle
    /\ UsageIdle
    /\ AlertIdle
    /\ CreateIdle
    /\ TaskIdle
    /\ TeamIdle
    /\ RCIdle
    /\ PriceIdle
    /\ RecordIdle
    /\ RenewIdle
    /\ TrialIdle

\* OrganizationSubscriptionViewSet.cancel
LCancel(reason, cancel_immediately) ==
    /\ lCount < LMaxRequests
    /\ lCount' = lCount + 1
    /\ LET error == CancelValidate(lSub.status)
       IN IF error = ""
          THEN /\ lSub' = CancelSubscription(lSub, cancel_immediately, clock)
               /\ lEvents' = Append(lEvents,
                      [event_type |-> "cancelled", at |-> clock, reason |-> reason])
               /\ lNotifs' = Append(lNotifs, "Subscription Cancelled")
               /\ lLast' = [op |-> "cancel", cancel_immediately |-> cancel_immediately,
                            plan_id |-> "", at |-> clock, events |-> Len(lEvents),
                            found |-> lSub, resp |-> LOk]
          ELSE /\ lLast' = [op |-> "cancel", cancel_immediately |-> cancel_immediately,
                            plan_id |-> "", at |-> clock, events |-> Len(lEvents),
                            found |-> lSub,
                            resp |-> LBadRequest(error)]
               /\ UNCHANGED <<lSub, lEvents, lNotifs>>
    /\ UNCHANGED <<clock, LifeOthers>>

\* OrganizationSubscriptionViewSet.reactivate
LReactivate(plan_id) ==
    /\ lCount < LMaxRequests
    /\ lCount' = lCount + 1
    /\ LET error == ReactivateValidate(lSub.status)
       IN IF error = ""
          THEN /\ lSub' = ReactivateSubscription(lSub, plan_id, clock)
               /\ lEvents' = Append(lEvents,
                      [event_type |-> "reactivated", at |-> clock, reason |-> ""])
               /\ lNotifs' = Append(lNotifs, "Subscription Reactivated")
               /\ lLast' = [op |-> "reactivate", cancel_immediately |-> FALSE,
                            plan_id |-> plan_id, at |-> clock, events |-> Len(lEvents),
                            found |-> lSub, resp |-> LOk]
          ELSE /\ lLast' = [op |-> "reactivate", cancel_immediately |-> FALSE,
                            plan_id |-> plan_id, at |-> clock, events |-> Len(lEvents),
                            found |-> lSub,
                            resp |-> LBadRequest(error)]
               /\ UNCHANGED <<lSub, lEvents, lNotifs>>
    /\ UNCHANGED <<clock, LifeOthers>>

LTick ==
    /\ clock < LClock0 + LTicks
    /\ clock' = clock + 1
    /\ UNCHANGED <<lifeVars, LifeOthers>>

NextLife ==
    \/ \E reason \in {"too_expensive", "other"}, cancel_immediately \in BOOLEAN :
          LCancel(reason, cancel_immediately)
    \/ \E plan_id \in {""} \cup DOMAIN DPlans : LReactivate(plan_id)
    \/ LTick

SpecLife == InitLife /\ [][NextLife]_vars
\* C11: a cancel request is accepted exactly when the status it finds is
\* neither 'cancelled' nor 'expired'; it then leaves the row with status
\* 'cancelled', cancelled_at = now, and end_date = now when
\* cancel_immediately, else current_period_end, and nothing else changed;
\* otherwise it answers 400 'Subscription is already cancelled or expired.'
\* and the row is as it was.
C11_CancelRequest ==
    (lCount > 0 /\ lLast.op = "cancel") =>
        IF lLast.found.status \notin {"cancelled", "expired"}
        THEN /\ lLast.resp = LOk
             /\ lSub = [lLast.found EXCEPT
                           !.status = "cancelled",
                           !.cancelled_at = lLast.at,
                           !.end_date = IF lLast.cancel_immediately
                                        THEN lLast.at
                                        ELSE lLast.found.current_period_end]
             /\ Len(lEvents) = lLast.events + 1
             /\ lEvents[Len(lEvents)].event_type = "cancelled"
             /\ lEvents[Len(lEvents)].at = lLast.at
        ELSE /\ lLast.resp =
                    LBadRequest("Subscription is already cancelled or expired.")
             /\ lSub = lLast.found
             /\ Len(lEvents) = lLast.events

\* a past-due subscription cancelled to the end of its period, some time into the run
C11_Witness ==
    /\ lLast.op = "cancel"
    /\ lLast.resp = LOk
    /\ ~lLast.cancel_immediately
    /\ lLast.found.status = "past_due"
    /\ lSub.end_date = lSub.current_period_end
    /\ lSub.cancelled_at > LClock0

\* C12: a reactivation request is accepted exactly when the status it finds
\* is 'cancelled', 'expired' or 'suspended'; it then leaves the row active,
\* with end_date and cancelled_at cleared, the period starting now and
\* ending 30 days later, and next_billing_date = current_period_end;
\* otherwise it answers 400 'Subscription cannot be reactivated from current
\* status.' and the row is as it was.
C12_ReactivateRequest ==
    (lCount > 0 /\ lLast.op = "reactivate") =>
        IF lLast.found.status \in {"cancelled", "expired", "suspended"}
        THEN /\ lLast.resp = LOk
             /\ lSub.status = "active"
             /\ lSub.end_date = NoTime
             /\ lSub.cancelled_at = NoTime
             /\ lSub.current_period_start = lLast.at
             /\ lSub.current_period_end = lLast.at + Days(30)
             /\ lSub.next_billing_date = lSub.current_period_end
             /\ lSub.plan = (IF lLast.plan_id # "" THEN lLast.plan_id ELSE lLast.found.plan)
             /\ Len(lEvents) = lLast.events + 1
             /\ lEvents[Len(lEvents)].event_type = "reactivated"
        ELSE /\ lLast.resp =
                    LBadRequest("Subscription cannot be reactivated from current status.")
             /\ lSub = lLast.found
             /\ Len(lEvents) = lLast.events

\* a subscription cancelled in this run and reactivated later on another plan
C12_Witness ==
    /\ lLast.op = "reactivate"
    /\ lLast.resp = LOk
    /\ lLast.found.status = "cancelled"
    /\ lLast.found.cancelled_at = LClock0
    /\ lLast.at > LClock0
    /\ lLast.plan_id # ""
    /\ lLast.plan_id # lLast.found.plan
\* ======================================================= create subscription
\* OrganizationSubscriptionViewSet.create (views.py), SubscriptionCreateSerializer
\* (serializers.py) and SubscriptionManager.create_subscription (utils.py), for
\* requests without a discount code, handled by several workers.

CTicks == 1
CMaxRequests == 3

CClock0 == Days(3)
CWorkers == {"w1", "w2"}
COrgs == {"org1", "org2"}

\* hasattr(organization, 'subscription')
HasSubscription(subs, organization) ==
    \E sub \in subs : sub.organization = organization

\* SubscriptionCreateSerializer.validate: the error, "" when the data is valid
CreateValidate(subs, organization) ==
    IF HasSubscription(subs, organization)
    THEN "Organization already has an active subscription."
    ELSE ""

CIdleReq ==
    [pc |-> "idle", n |-> 0, organization |-> "", plan |-> "basic", trial_days |-> 0]

\* the response to a request that raised an exception the view does not catch
ServerError == [status |-> 500, error |-> "IntegrityError"]

InitCreate ==
    /\ clock = CClock0
    /\ \E orgs \in SUBSET COrgs, plan \in DOMAIN DPlans :
          cSubs = {NewSubscription(o, plan, 0, CClock0 - Days(1)) : o \in orgs}
    /\ cEvents = << >>
    /\ cNotifs = << >>
    /\ cReq = [w \in CWorkers |-> CIdleReq]
    /\ cDone = {}
    /\ cCount = 0
    /\ RLIdle
    /\ KeyIdle
    /\ AuthIdle
    /\ BillIdle
    /\ ProrIdle
    /\ DiscIdle
    /\ UsageIdle
    /\ AlertIdle
    /\ LifeIdle
    /\ TaskIdle
    /\ TeamIdle
    /\ RCIdle
    /\ PriceIdle
    /\ RecordIdle
    /\ RenewIdle
    /\ TrialIdle

\* OrganizationSubscriptionViewSet.create up to serializer.is_valid()
CValidate(w, organization, plan, trial_days) ==
    /\ cReq[w].pc = "idle"
    /\ cCount < CMaxRequests
    /\ cCount' = cCount + 1
    /\ LET error == CreateValidate(cSubs, organization)
       IN IF error = ""
          THEN /\ cReq' = [cReq EXCEPT ![w] =
                              [pc |-> "create", n |-> cCount + 1,
                               organization |-> organization,
                               plan |-> plan, trial_days |-> trial_days]]
               /\ UNCHANGED cDone
          ELSE /\ cDone' = cDone \cup
                      {[n |-> cCount + 1, organization |-> organization,
                        existing |-> TRUE, created |-> FALSE,
                        resp |-> LBadRequest(error)]}
               /\ UNCHANGED cReq
    /\ UNCHANGED <<clock, cSubs, cEvents, cNotifs, CreateOthers>>

\* SubscriptionManager.create_subscription and the response: the INSERT fails on the
\* one-to-one constraint when a row of the organization has been committed meanwhile
CCreate(w) ==
    /\ cReq[w].pc = "create"
    /\ cReq' = [cReq EXCEPT ![w] = CIdleReq]
    /\ LET r == cReq[w]
           existing == HasSubscription(cSubs, r.organization)
       IN IF existing
          THEN /\ cDone' = cDone \cup
                      {[n |-> r.n, organization |-> r.organization,
                        existing |-> TRUE, created |-> FALSE, resp |-> ServerError]}
               /\ UNCHANGED <<cSubs, cEvents, cNotifs>>
          ELSE /\ cSubs' = cSubs \cup
                      {SubscriptionSave(
                           NewSubscription(r.organization, r.plan, r.trial_days, clock))}
               /\ cEvents' = Append(cEvents,
                      [event_type |-> "created", organization |-> r.organization])
               /\ cNotifs' = Append(cNotifs,
                      [title |-> "Subscription Created", organization |-> r.organization])
               /\ cDone' = cDone \cup
                      {[n |-> r.n, organization |-> r.organization,
                        existing |-> FALSE, created |-> TRUE,
                        resp |-> [status |-> 201, error |-> ""]]}
    /\ UNCHANGED <<clock, cCount, CreateOthers>>

CTick ==
    /\ clock < CClock0 + CTicks
    /\ clock' = clock + 1
    /\ UNCHANGED <<createVars, CreateOthers>>

NextCreate ==
    \/ \E w \in CWorkers, organization \in COrgs, plan \in DOMAIN DPlans,
          trial_days \in {0, 14} : CValidate(w, organization, plan, trial_days)
    \/ \E w \in CWorkers : CCreate(w)
    \/ CTick

SpecCreate == InitCreate /\ [][NextCreate]_vars

TkTicks == 8

TkTasks == {"send_subscription_email", "process_subscription_webhook"}
\* the ids of the tasks that are published
TkIds == {1}

RECURSIVE Pow2(_)
Pow2(n) == IF n = 0 THEN 1 ELSE 2 * Pow2(n - 1)

\* max_retries=3 of the decorator
MaxRetries == 3

RetryCountdown_Linear(retries) == 60 * (retries + 1)

\* countdown=60 * (2 ** self.request.retries)
RetryCountdown(retries) == 60 * Pow2(retries)

\* the worker's time advances by the shortest countdown
TkStep == RetryCountdown(0)

\* a task message: the request's id and retries, and the eta it may run at
TkMessage(id, task, retries, eta) ==
    [id |-> id, task |-> task, retries |-> retries, eta |-> eta]

InitTask ==
    /\ clock = 0
    /\ tkNow = 0
    /\ tkQueue = {}
    /\ tkSent = {}
    /\ tkLog = << >>
    /\ tkState = << >>
    /\ tkCount = 0
    /\ RLIdle
    /\ KeyIdle
    /\ AuthIdle
    /\ BillIdle
    /\ ProrIdle
    /\ DiscIdle
    /\ UsageIdle
    /\ AlertIdle
    /\ LifeIdle
    /\ CreateIdle
    /\ TeamIdle
    /\ RCIdle
    /\ PriceIdle
    /\ RecordIdle
    /\ RenewIdle
    /\ TrialIdle

\* task.delay(...): publish the first message of a new task id
TkDelay(task) ==
    /\ tkCount + 1 \in TkIds
    /\ tkCount' = tkCount + 1
    /\ LET m == TkMessage(tkCount + 1, task, 0, tkNow)
       IN /\ tkQueue' = tkQueue \cup {m}
          /\ tkSent' = tkSent \cup {m}
    /\ tkState' = Append(tkState, "PENDING")
    /\ UNCHANGED <<clock, tkNow, tkLog, TaskOthers>>

\* a worker executes a message whose eta has arrived; raises says whether the
\* body raised. self.retry publishes the message again with retries + 1 unless
\* retries has reached max_retries, in which case the exception is raised.
TkRun(m, raises) ==
    /\ m \in tkQueue
    /\ m.eta <= tkNow
    /\ tkLog' = Append(tkLog, [id |-> m.id, task |-> m.task, retries |-> m.retries,
                               at |-> tkNow, raised |-> raises])
    /\ IF ~raises
       THEN /\ tkQueue' = tkQueue \ {m}
            /\ tkState' = [tkState EXCEPT ![m.id] = "SUCCESS"]
            /\ UNCHANGED tkSent
       ELSE IF m.retries >= MaxRetries
       THEN /\ tkQueue' = tkQueue \ {m}
            /\ tkState' = [tkState EXCEPT ![m.id] = "FAILURE"]
            /\ UNCHANGED tkSent
       ELSE LET again == TkMessage(m.id, m.task, m.retries + 1,
                                   tkNow + RetryCountdown(m.retries))
            IN /\ tkQueue' = (tkQueue \ {m}) \cup {again}
               /\ tkSent' = tkSent \cup {again}
               /\ tkState' = [tkState EXCEPT ![m.id] = "RETRY"]
    /\ UNCHANGED <<clock, tkNow, tkCount, TaskOthers>>

TkTick ==
    /\ tkNow < TkTicks * TkStep
    /\ tkNow' = tkNow + TkStep
    /\ UNCHANGED <<clock, tkQueue, tkSent, tkLog, tkState, tkCount, TaskOthers>>

TkMessages ==
    {TkMessage(id, task, retries, TkStep * e) :
        id \in TkIds, task \in TkTasks, retries \in 0..MaxRetries, e \in 0..(TkTicks + 1)}

NextTask ==
    \/ \E task \in TkTasks : TkDelay(task)
    \/ \E m \in TkMessages, raises \in BOOLEAN : TkRun(m, raises)
    \/ TkTick

SpecTask == InitTask /\ [][NextTask]_vars

TkAttempts(id) == {i \in 1..Len(tkLog) : tkLog[i].id = id}

\* C14: a task whose body raises is retried at most 3 times, the retry
\* after the failed attempt with n = 0, 1, 2 previous retries being scheduled 60, 120,
\* 240 seconds after that attempt; when the attempt with 3 previous retries fails the
\* task is in state FAILURE, has no message left and is not executed again.
C14_RetrySchedule ==
    /\ \A m \in tkSent :
          /\ m.retries <= 3
          /\ m.retries > 0 =>
                \E i \in TkAttempts(m.id) :
                   /\ tkLog[i].raised
                   /\ tkLog[i].retries = m.retries - 1
                   /\ m.eta = tkLog[i].at + <<60, 120, 240>>[m.retries]
    /\ \A id \in 1..tkCount :
          /\ Cardinality(TkAttempts(id)) <= 4
          /\ \A i, j \in TkAttempts(id) : i < j => tkLog[i].retries < tkLog[j].retries
          /\ \A i \in TkAttempts(id) :
                tkLog[i].raised =>
                   IF tkLog[i].retries = 3
                   THEN /\ tkState[id] = "FAILURE"
                        /\ ~\E m \in tkQueue : m.id = id
                        /\ ~\E j \in TkAttempts(id) : j > i
                   ELSE \E m \in tkSent : m.id = id /\ m.retries = tkLog[i].retries + 1

\* a task has failed permanently after its third retry, run 240 seconds after the second
C14_Witness ==
    \E id \in 1..tkCount :
       /\ tkState[id] = "FAILURE"
       /\ Cardinality(TkAttempts(id)) = 4
       /\ \E i, j \in TkAttempts(id) :
             /\ tkLog[i].retries = 2
             /\ tkLog[j].retries = 3
             /\ tkLog[j].at = tkLog[i].at + 240
\* ==================================================== organization members
\* Organizations, their members and invitations (apps/teams): organization
\* creation, invitations (API and admin), invitation responses, remove_member,
\* bulk_member_action and the admin form of a member. Each request is handled
\* as one step.

TMaxRequests == 4

TClock0 == Days(10)
TUsers == {"u1", "u2"}
TOrgOrder == <<"org1">>
TOrgs == {TOrgOrder[i] : i \in 1..Len(TOrgOrder)}

\* Role.ROLE_CHOICES (the viewer role behaves as the member role here)
TRoles == {"owner", "admin", "member"}

\* Organization.max_users default
MaxUsers == 10

MemberRow(organization, user, role, is_active) ==
    [organization |-> organization, user |-> user, role |-> role, is_active |-> is_active]

InvitationRow(organization, email, role, status, expires_at) ==
    [organization |-> organization, email |-> email, role |-> role,
     status |-> status, expires_at |-> expires_at]

\* organization.members
OrgMembers(members, organization) == {m \in members : m.organization = organization}

\* Organization.member_count
TeamMemberCount(members, organization) ==
    Cardinality({m \in OrgMembers(members, organization) : m.is_active})

\* Organization.get_user_role: the role name, "" for None
GetUserRole(members, organization, user) ==
    IF \E m \in OrgMembers(members, organization) : m.user = user /\ m.is_active
    THEN (CHOOSE m \in OrgMembers(members, organization) : m.user = user /\ m.is_active).role
    ELSE ""

\* Organization.has_member
HasMember(members, organization, user) ==
    \E m \in OrgMembers(members, organization) : m.user = user /\ m.is_active

\* IsOrganizationMember and CanManageMembers; the owner and admin roles carry
\* can_manage_members
CanManageMembers(orgs, members, organization, user) ==
    /\ organization \in orgs
    /\ HasMember(members, organization, user)
    /\ GetUserRole(members, organization, user) \in {"owner", "admin"}

\* the active owners of an organization
ActiveOwners(members, organization) ==
    {m \in OrgMembers(members, organization) : m.role = "owner" /\ m.is_active}

\* OrganizationMember.clean of a new row: the error, "" when the row is clean
MemberClean(members, row) ==
    IF row.role = "owner" /\ ActiveOwners(members, row.organization) # {}
    THEN "Organization can only have one owner."
    ELSE ""

\* unique_together = ['organization', 'user']
MemberExists(members, organization, user) ==
    \E m \in OrgMembers(members, organization) : m.user = user

\* unique_together = ['organization', 'email', 'status']
InvitationExists(invites, organization, email, status) ==
    \E i \in invites : i.organization = organization /\ i.email = email /\ i.status = status

\* Invitation.is_expired
IsExpired(invitation, now) == now > invitation.expires_at

\* InvitationSerializer.validate: the error, "" when the data is valid
InvitationValidate(orgs, members, invites, requester, organization, email) ==
    IF organization \notin orgs THEN "Organization not found."
    ELSE IF GetUserRole(members, organization, requester) \notin {"owner", "admin"}
    THEN "You don't have permission to invite members."
    ELSE IF ~(TeamMemberCount(members, organization) < MaxUsers)
    THEN "Organization has reached maximum user limit."
    ELSE IF HasMember(members, organization, email)
    THEN "User is already a member of this organization."
    ELSE IF InvitationExists(invites, organization, email, "pending")
    THEN "Pending invitation already exists for this email."
    ELSE ""

BulkRejects_RemoveOnly(action, targeted) ==
    action = "remove" /\ \E m \in targeted : m.role = "owner"

\* bulk_member_action: 'remove' and 'deactivate' are refused when a targeted member
\* is an owner
BulkRejects(action, targeted) ==
    action \in {"remove", "deactivate"} /\ \E m \in targeted : m.role = "owner"

TResp(status, error) == [status |-> status, error |-> error]

TmRequest(op, organization, targets, action, before, resp) ==
    [op |-> op, organization |-> organization, targets |-> targets, action |-> action,
     before |-> before, resp |-> resp]

InitTeam ==
    /\ clock = TClock0
    /\ tmOrgs = {}
    /\ tmMembers = {}
    /\ tmInvites = {}
    /\ tmLast = TmRequest("none", "", {}, "", {}, TResp(0, ""))
    /\ tmCount = 0
    /\ RLIdle
    /\ KeyIdle
    /\ AuthIdle
    /\ BillIdle
    /\ ProrIdle
    /\ DiscIdle
    /\ UsageIdle
    /\ AlertIdle
    /\ LifeIdle
    /\ CreateIdle
    /\ TaskIdle
    /\ RCIdle
    /\ PriceIdle
    /\ RecordIdle
    /\ RenewIdle
    /\ TrialIdle

\* OrganizationSerializer.create: the organization and its owner membership
TmCreateOrganization(user) ==
    /\ tmCount < TMaxRequests
    /\ tmCount' = tmCount + 1
    /\ \E i \in 1..Len(TOrgOrder) :
          /\ i = Cardinality(tmOrgs) + 1
          /\ tmOrgs' = tmOrgs \cup {TOrgOrder[i]}
          /\ tmMembers' = tmMembers \cup {MemberRow(TOrgOrder[i], user, "owner", TRUE)}
          /\ tmLast' = TmRequest("create_organization", TOrgOrder[i], {user}, "",
                                 tmMembers, TResp(201, ""))
    /\ UNCHANGED <<clock, tmInvites, TeamOthers>>

\* InvitationViewSet.create: the permissions, InvitationSerializer.validate, then
\* perform_create's serializer.save(organization=...) into InvitationSerializer.create,
\* which passes organization twice to Invitation.objects.create (TypeError)
TmCreateInvitation(requester, organization, email) ==
    /\ tmCount < TMaxRequests
    /\ tmCount' = tmCount + 1
    /\ LET error == InvitationValidate(tmOrgs, tmMembers, tmInvites,
                                       requester, organization, email)
           resp == IF ~CanManageMembers(tmOrgs, tmMembers, organization, requester)
                   THEN TResp(403, "permission_denied")
                   ELSE IF error # "" THEN TResp(400, error)
                   ELSE TResp(500, "TypeError")
       IN tmLast' = TmRequest("create_invitation", organization, {email}, "",
                              tmMembers, resp)
    /\ UNCHANGED <<clock, tmOrgs, tmMembers, tmInvites, TeamOthers>>

\* InvitationAdmin: a pending invitation added through the admin form
TmAdminAddInvitation(organization, email, role, expires_at) ==
    /\ tmCount < TMaxRequests
    /\ tmCount' = tmCount + 1
    /\ organization \in tmOrgs
    /\ ~InvitationExists(tmInvites, organization, email, "pending")
    /\ tmInvites' = tmInvites \cup
          {InvitationRow(organization, email, role, "pending", expires_at)}
    /\ tmLast' = TmRequest("admin_add_invitation", organization, {email}, "",
                           tmMembers, TResp(200, ""))
    /\ UNCHANGED <<clock, tmOrgs, tmMembers, TeamOthers>>

\* Invitation.accept as InvitationResponseView.post runs it: any exception becomes a
\* 400 response; the rows saved before the exception stay
TmAccept(invitation, user) ==
    /\ tmCount < TMaxRequests
    /\ tmCount' = tmCount + 1
    /\ invitation \in tmInvites
    /\ LET org == invitation.organization
           rest == tmInvites \ {invitation}
           Last(resp) == TmRequest("accept", org, {user}, "", tmMembers, resp)
       IN IF invitation.status # "pending"
          THEN /\ tmLast' = Last(TResp(400, "Invitation is not in pending status"))
               /\ UNCHANGED <<tmMembers, tmInvites>>
          ELSE IF IsExpired(invitation, clock)
          THEN IF InvitationExists(rest, org, invitation.email, "expired")
               THEN /\ tmLast' = Last(TResp(400, "IntegrityError"))
                    /\ UNCHANGED <<tmMembers, tmInvites>>
               ELSE /\ tmInvites' = rest \cup {[invitation EXCEPT !.status = "expired"]}
                    /\ tmLast' = Last(TResp(400, "Invitation has expired"))
                    /\ UNCHANGED tmMembers
          ELSE IF MemberExists(tmMembers, org, user)
          THEN /\ tmLast' = Last(TResp(400, "IntegrityError"))
               /\ UNCHANGED <<tmMembers, tmInvites>>
          ELSE /\ tmMembers' = tmMembers \cup {MemberRow(org, user, invitation.role, TRUE)}
               /\ IF InvitationExists(rest, org, invitation.email, "accepted")
                  THEN /\ tmLast' = Last(TResp(400, "IntegrityError"))
                       /\ UNCHANGED tmInvites
                  ELSE /\ tmInvites' = rest \cup {[invitation EXCEPT !.status = "accepted"]}
                       /\ tmLast' = Last(TResp(200, ""))
    /\ UNCHANGED <<clock, tmOrgs, TeamOthers>>

\* Invitation.decline as InvitationResponseView.post runs it
TmDecline(invitation, user) ==
    /\ tmCount < TMaxRequests
    /\ tmCount' = tmCount + 1
    /\ invitation \in tmInvites
    /\ LET org == invitation.organization
           rest == tmInvites \ {invitation}
           Last(resp) == TmRequest("decline", org, {user}, "", tmMembers, resp)
       IN IF invitation.status # "pending"
          THEN /\ tmLast' = Last(TResp(400, "Invitation is not in pending status"))
               /\ UNCHANGED tmInvites
          ELSE IF InvitationExists(rest, org, invitation.email, "declined")
          THEN /\ tmLast' = Last(TResp(400, "IntegrityError"))
               /\ UNCHANGED tmInvites
          ELSE /\ tmInvites' = rest \cup {[invitation EXCEPT !.status = "declined"]}
               /\ tmLast' = Last(TResp(200, ""))
    /\ UNCHANGED <<clock, tmOrgs, tmMembers, TeamOthers>>

\* OrganizationViewSet.remove_member
TmRemoveMember(requester, organization, user_id) ==
    /\ tmCount < TMaxRequests
    /\ tmCount' = tmCount + 1
    /\ LET Last(resp) == TmRequest("remove_member", organization, {user_id}, "",
                                   tmMembers, resp)
           role == GetUserRole(tmMembers, organization, user_id)
       IN IF ~CanManageMembers(tmOrgs, tmMembers, organization, requester)
          THEN /\ tmLast' = Last(TResp(403, "permission_denied"))
               /\ UNCHANGED tmMembers
          ELSE IF role = ""
          THEN /\ tmLast' = Last(TResp(404, "Member not found"))
               /\ UNCHANGED tmMembers
          ELSE IF role = "owner"
          THEN /\ tmLast' = Last(TResp(400, "Cannot remove organization owner"))
               /\ UNCHANGED tmMembers
          ELSE IF role = "admin" /\ GetUserRole(tmMembers, organization, requester) # "owner"
          THEN /\ tmLast' = Last(TResp(403, "Only owners can remove admins"))
               /\ UNCHANGED tmMembers
          ELSE /\ tmMembers' =
                     {IF m.organization = organization /\ m.user = user_id
                      THEN [m EXCEPT !.is_active = FALSE] ELSE m : m \in tmMembers}
               /\ tmLast' = Last(TResp(204, ""))
    /\ UNCHANGED <<clock, tmOrgs, tmInvites, TeamOthers>>

\* OrganizationViewSet.bulk_member_action
TmBulkMemberAction(requester, organization, user_ids, action) ==
    /\ tmCount < TMaxRequests
    /\ tmCount' = tmCount + 1
    /\ LET Last(resp) == TmRequest("bulk_member_action", organization, user_ids, action,
                                   tmMembers, resp)
           targeted == {m \in OrgMembers(tmMembers, organization) : m.user \in user_ids}
           Update(active) == {IF m \in targeted THEN [m EXCEPT !.is_active = active] ELSE m :
                                 m \in tmMembers}
       IN IF ~CanManageMembers(tmOrgs, tmMembers, organization, requester)
          THEN /\ tmLast' = Last(TResp(403, "permission_denied"))
               /\ UNCHANGED tmMembers
          ELSE IF BulkRejects(action, targeted)
          THEN /\ tmLast' = Last(TResp(400, IF action = "remove"
                                            THEN "Cannot remove organization owners"
                                            ELSE "Cannot deactivate organization owners"))
               /\ UNCHANGED tmMembers
          ELSE /\ tmMembers' = Update(action = "activate")
               /\ tmLast' = Last(TResp(200, ""))
    /\ UNCHANGED <<clock, tmOrgs, tmInvites, TeamOthers>>

\* OrganizationMemberAdmin: a member added through the admin form, whose validation
\* runs OrganizationMember.clean and the uniqueness check
TmAdminAddMember(organization, user, role) ==
    /\ tmCount < TMaxRequests
    /\ tmCount' = tmCount + 1
    /\ organization \in tmOrgs
    /\ LET row == MemberRow(organization, user, role, TRUE)
           Last(resp) == TmRequest("admin_add_member", organization, {user}, role,
                                   tmMembers, resp)
       IN IF MemberClean(tmMembers, row) # ""
          THEN /\ tmLast' = Last(TResp(400, MemberClean(tmMembers, row)))
               /\ UNCHANGED tmMembers
          ELSE IF MemberExists(tmMembers, organization, user)
          THEN /\ tmLast' = Last(TResp(400, "unique_together"))
               /\ UNCHANGED tmMembers
          ELSE /\ tmMembers' = tmMembers \cup {row}
               /\ tmLast' = Last(TResp(200, ""))
    /\ UNCHANGED <<clock, tmOrgs, tmInvites, TeamOthers>>

TInvitations ==
    {InvitationRow(o, e, r, st, x) :
        o \in TOrgs, e \in TUsers, r \in TRoles,
        st \in {"pending", "accepted", "declined", "expired"},
        x \in {TClock0 - 1, TClock0 + Days(7)}}

NextTeam ==
    \/ \E user \in TUsers : TmCreateOrganization(user)
    \/ \E requester \in TUsers, organization \in TOrgs, email \in TUsers :
          TmCreateInvitation(requester, organization, email)
    \/ \E organization \in TOrgs, email \in TUsers, role \in TRoles,
          expires_at \in {TClock0 - 1, TClock0 + Days(7)} :
          TmAdminAddInvitation(organization, email, role, expires_at)
    \/ \E invitation \in TInvitations, user \in TUsers : TmAccept(invitation, user)
    \/ \E invitation \in TInvitations, user \in TUsers : TmDecline(invitation, user)
    \/ \E requester \in TUsers, organization \in TOrgs, user_id \in TUsers :
          TmRemoveMember(requester, organization, user_id)
    \/ \E requester \in TUsers, organization \in TOrgs,
          user_ids \in (SUBSET TUsers) \ {{}},
          action \in {"remove", "activate", "deactivate"} :
          TmBulkMemberAction(requester, organization, user_ids, action)
    \/ \E organization \in TOrgs, user \in TUsers, role \in TRoles :
          TmAdminAddMember(organization, user, role)

SpecTeam == InitTeam /\ [][NextTeam]_vars

\* C15: every organization has at most one active member with the OWNER role.
C15_OneOwner ==
    \A organization \in tmOrgs : Cardinality(ActiveOwners(tmMembers, organization)) <= 1
\* the members of the last request's organization that it targeted, as they were
\* before the request
TmTargeted ==
    {m \in OrgMembers(tmLast.before, tmLast.organization) : m.user \in tmLast.targets}

\* C16: remove_member and bulk_member_action, called by a user who may
\* manage members, never deactivate an owner: remove_member on the owner answers 400
\* 'Cannot remove organization owner', and bulk_member_action 'remove' or 'deactivate'
\* answers 400 and changes no member when a targeted member is an owner.
C16_OwnerNotDeactivated ==
    /\ tmLast.op \in {"remove_member", "bulk_member_action"} =>
          \A m \in tmLast.before : m.role = "owner" /\ m.is_active => m \in tmMembers
    /\ ( /\ tmLast.op = "remove_member"
         /\ tmLast.resp.error # "permission_denied"
         /\ \E m \in TmTargeted : m.role = "owner" /\ m.is_active )
       => /\ tmLast.resp = TResp(400, "Cannot remove organization owner")
          /\ tmMembers = tmLast.before
    /\ ( /\ tmLast.op = "bulk_member_action"
         /\ tmLast.action \in {"remove", "deactivate"}
         /\ tmLast.resp.error # "permission_denied"
         /\ \E m \in TmTargeted : m.role = "owner" )
       => /\ tmLast.resp.status = 400
          /\ tmMembers = tmLast.before

\* a bulk 'deactivate' on the owner and an active admin was refused
C16_Witness ==
    /\ tmLast.op = "bulk_member_action"
    /\ tmLast.action = "deactivate"
    /\ tmLast.resp = TResp(400, "Cannot deactivate organization owners")
    /\ \E m \in TmTargeted : m.role = "owner" /\ m.is_active
    /\ \E m \in TmTargeted : m.role = "admin" /\ m.is_active
    /\ tmMembers = tmLast.before
\* ============================================ rate limiting, several workers
\* EnhancedRateLimitMiddleware.process_request handled by several workers that
\* share the cache. check_*_rate_limit reads the two counters with cache.get,
\* compares them and, later, writes the values it read plus one with cache.set;
\* other workers run between the reads and the writes.

RcWorkers == {"w1", "w2"}

RcIdleReq ==
    [pc |-> "idle", req |-> RLNoRequest.req, at |-> 0,
     hourly_key |-> << >>, daily_key |-> << >>, hourly_count |-> 0, daily_count |-> 0]

InitRLC ==
    /\ clock = RLClock0
    /\ \E sc \in RLScenarios, seed \in RLSeeds :
          /\ rlActive = sc.active
          /\ rlKeys = sc.keys
          /\ rlPlans = sc.plans
          /\ cache = SeedCache(seed, sc.active, sc.keys, sc.plans)
          /\ admitted = SeedAdmitted(seed, sc.active, sc.keys, sc.plans)
    /\ passedSkip = [i \in rlActive |-> [h \in RLHours |-> 0]]
    /\ rlLast = RLNoRequest
    /\ rlCount = 0
    /\ rcReq = [w \in RcWorkers |-> RcIdleReq]
    /\ KeyIdle
    /\ AuthIdle
    /\ BillIdle
    /\ ProrIdle
    /\ DiscIdle
    /\ UsageIdle
    /\ AlertIdle
    /\ LifeIdle
    /\ CreateIdle
    /\ TaskIdle
    /\ TeamIdle
    /\ PriceIdle
    /\ RecordIdle
    /\ RenewIdle
    /\ TrialIdle

\* process_request up to the two comparisons: the 429 when a counter read from the
\* cache has reached its limit, else the worker goes on to the increments
RcCheck(w, req) ==
    /\ rcReq[w].pc = "idle"
    /\ RLWho(req) \in rlActive
    /\ ~req.skip
    /\ rlCount < RLMaxRequests
    /\ rlCount' = rlCount + 1
    /\ LET d == RLDecision(req)
           lim == RLLimits(req)
       IN IF d = "pass"
          THEN /\ rcReq' = [rcReq EXCEPT ![w] =
                     [pc |-> "increment", req |-> req, at |-> HourStamp(clock),
                      hourly_key |-> RLHourlyKey(req, clock),
                      daily_key |-> RLDailyKey(req, clock),
                      hourly_count |-> CacheGet(cache, RLHourlyKey(req, clock), 0),
                      daily_count |-> CacheGet(cache, RLDailyKey(req, clock), 0)]]
               /\ UNCHANGED rlLast
          ELSE /\ rlLast' = [req |-> req, at |-> HourStamp(clock),
                             resp |-> RateLimitResponse(
                                 IF d = "hour" THEN lim.hour ELSE lim.day, d)]
               /\ UNCHANGED rcReq
    /\ UNCHANGED <<clock, cache, admitted, passedSkip, rlKeys, rlPlans, rlActive>>
    /\ UNCHANGED RCOthers

\* the two cache.set calls with the counts read earlier, and return None
RcIncrement(w) ==
    /\ rcReq[w].pc = "increment"
    /\ LET r == rcReq[w]
           c1 == CacheSet(cache, r.hourly_key, r.hourly_count + 1, HOUR)
       IN /\ cache' = CacheSet(c1, r.daily_key, r.daily_count + 1, DAY)
          /\ admitted' = [admitted EXCEPT ![RLWho(r.req)][r.at] = @ + 1]
          /\ rlLast' = [req |-> r.req, at |-> r.at, resp |-> PassOn]
    /\ rcReq' = [rcReq EXCEPT ![w] = RcIdleReq]
    /\ UNCHANGED <<clock, rlCount, passedSkip, rlKeys, rlPlans, rlActive>>
    /\ UNCHANGED RCOthers

RcTick ==
    /\ clock < RLClock0 + RLTicks
    /\ clock' = clock + 1
    /\ cache' = LiveAt(cache, clock + 1)
    /\ UNCHANGED <<rlKeys, rlPlans, rlActive, admitted, passedSkip, rlLast, rlCount, rcReq>>
    /\ UNCHANGED RCOthers

NextRLC ==
    \/ \E w \in RcWorkers, req \in RLRequests : RcCheck(w, req)
    \/ \E w \in RcWorkers : RcIncrement(w)
    \/ RcTick

SpecRLC == InitRLC /\ [][NextRLC]_vars

\* C17: for every identity, the requests admitted in one clock hour are
\* at most its hourly limit and those admitted in one day at most its daily limit.
C17_AdmittedWithinLimits ==
    \A who \in rlActive :
       LET lim == RLLimits([kind |-> who.kind, id |-> who.id, skip |-> FALSE])
       IN \A h \in RLHours :
             /\ admitted[who][h] <= lim.hour
             /\ SumOver(admitted[who], SameDay(h)) <= lim.day
\* ============================================================ custom prices
\* The two places that set OrganizationSubscription.custom_price:
\* SubscriptionUpdateSerializer (serializers.py) and the discount branch of
\* SubscriptionManager.create_subscription (utils.py). Amounts are in hundredths.

PrMaxRequests == 3

PrClock0 == Days(2)

\* validate_custom_price: the error, "" when the value is accepted
ValidateCustomPrice(value) ==
    IF ~value.null /\ value.amount < 0 THEN "Custom price cannot be negative." ELSE ""

\* the values SubscriptionDiscount lets percentage_off (DecimalField(5, 2)) and
\* amount_off (DecimalField(10, 2)) hold: neither field has a validator
PrDiscountTypes ==
    {[discount_type |-> "percentage", amount_off |-> 0, percentage_off |-> p,
      free_trial_days |-> 0] : p \in {0, 25, 100, 150}}
    \cup {[discount_type |-> "fixed_amount", amount_off |-> a, percentage_off |-> 0,
           free_trial_days |-> 0] : a \in {-5000, 0, 2500, 10000, 50000}}
    \cup {[discount_type |-> "free_trial", amount_off |-> 0, percentage_off |-> 0,
           free_trial_days |-> 7]}

\* discounts for which is_valid is true, and one that is switched off
PrDiscounts ==
    {DDiscountRow(t, NoLimit, 0, a, NoTime, {}) : t \in PrDiscountTypes, a \in BOOLEAN}

PrValues == {NoPrice, Price(-1), Price(0), Price(4900)}

PrNoDiscount ==
    DDiscountRow([discount_type |-> "free_trial", amount_off |-> 0, percentage_off |-> 0,
                  free_trial_days |-> 0], NoLimit, 0, FALSE, NoTime, {})

PrRequest(op, organization, value, discount, applied, resp) ==
    [op |-> op, organization |-> organization, value |-> value, discount |-> discount,
     applied |-> applied, resp |-> resp]

InitPrice ==
    /\ clock = PrClock0
    /\ prSubs = {}
    /\ prLast = PrRequest("none", "", NoPrice, PrNoDiscount, FALSE, TResp(0, ""))
    /\ prCount = 0
    /\ RLIdle
    /\ KeyIdle
    /\ AuthIdle
    /\ BillIdle
    /\ ProrIdle
    /\ DiscIdle
    /\ UsageIdle
    /\ AlertIdle
    /\ LifeIdle
    /\ CreateIdle
    /\ TaskIdle
    /\ TeamIdle
    /\ RCIdle
    /\ RecordIdle
    /\ RenewIdle
    /\ TrialIdle

\* create_subscription with a discount code, for an organization without a subscription
PrCreate(organization, plan, discount) ==
    /\ prCount < PrMaxRequests
    /\ prCount' = prCount + 1
    /\ ~HasSubscription(prSubs, organization)
    /\ LET subscription == NewSubscription(organization, plan, 0, clock)
           applied == DiscountIsValid(discount, clock) /\ CanApplyToPlan(discount, plan)
           saved == IF applied THEN ApplyDiscount(subscription, discount, clock)
                    ELSE subscription
       IN /\ prSubs' = prSubs \cup {saved}
          /\ prLast' = PrRequest("create", organization, saved.custom_price, discount,
                                 applied, TResp(201, ""))
    /\ UNCHANGED <<clock, PriceOthers>>

\* the update of a subscription through SubscriptionUpdateSerializer
PrUpdate(organization, value) ==
    /\ prCount < PrMaxRequests
    /\ prCount' = prCount + 1
    /\ HasSubscription(prSubs, organization)
    /\ LET error == ValidateCustomPrice(value)
       IN IF error # ""
          THEN /\ prLast' = PrRequest("update", organization, value, PrNoDiscount, FALSE,
                                      TResp(400, error))
               /\ UNCHANGED prSubs
          ELSE /\ prSubs' = {IF sub.organization = organization
                             THEN [sub EXCEPT !.custom_price = value] ELSE sub :
                                sub \in prSubs}
               /\ prLast' = PrRequest("update", organization, value, PrNoDiscount, FALSE,
                                      TResp(200, ""))
    /\ UNCHANGED <<clock, PriceOthers>>

NextPrice ==
    \/ \E organization \in DOrgs, plan \in DOMAIN DPlans, discount \in PrDiscounts :
          PrCreate(organization, plan, discount)
    \/ \E organization \in DOrgs, value \in PrValues : PrUpdate(organization, value)

SpecPrice == InitPrice /\ [][NextPrice]_vars

\* C18: no subscription has a negative custom_price; an update with a
\* negative value is rejected with 'Custom price cannot be negative.'; and the price
\* create_subscription sets from a valid fixed-amount or percentage discount is at
\* least 0 and at most the plan's price.
C18_PriceWithinBounds ==
    /\ \A sub \in prSubs : sub.custom_price.null \/ sub.custom_price.amount >= 0
    /\ (prLast.op = "update" /\ ~prLast.value.null /\ prLast.value.amount < 0) =>
          prLast.resp = TResp(400, "Custom price cannot be negative.")
    /\ ( /\ prLast.op = "create"
         /\ prLast.applied
         /\ prLast.discount.discount_type \in {"fixed_amount", "percentage"} )
       => \E sub \in prSubs :
             /\ sub.organization = prLast.organization
             /\ ~sub.custom_price.null
             /\ sub.custom_price.amount >= 0
             /\ sub.custom_price.amount <= DPlans[sub.plan].price
\* ========================================================== usage recording
\* UsageTracker.record_usage and bulk_create_usage_records (utils.py) with the
\* post_save receiver of UsageRecord, handle_usage_record_creation (signals.py),
\* which apps.py registers. UsageRecord.objects.create sends post_save;
\* bulk_create does not. The receiver's instance.subscription is the object the
\* caller passed in.

URMaxCalls == 2

URUsageTypes == {"api_call", "storage"}
URQuantities == {1, 5, 10}

UsageRecordRow(usage_type, quantity) == [usage_type |-> usage_type, quantity |-> quantity]

\* what handle_usage_record_creation does for a created record: the counter it saves,
\* whether the percentage division fails, and the event and e-mail it sends
HandleUsageRecordCreation(sub, record) ==
    IF record.usage_type # "api_call"
    THEN [sub |-> sub, raised |-> FALSE, signals |-> << >>]
    ELSE LET used == sub.api_calls_used + record.quantity
             limit == sub.max_api_calls_per_month
             saved == [sub EXCEPT !.api_calls_used = used]
         IN IF limit = 0
            THEN [sub |-> saved, raised |-> TRUE, signals |-> << >>]
            ELSE [sub |-> saved, raised |-> FALSE,
                  signals |->
                     IF used * 100 >= 100 * limit
                     THEN <<[event_type |-> "usage_limit_exceeded", used |-> used,
                             limit |-> limit]>>
                     ELSE IF used * 100 >= 80 * limit
                     THEN <<[event_type |-> "usage_warning", used |-> used,
                             limit |-> limit]>>
                     ELSE << >>]

RECURSIVE ApiCallsTotal(_)
ApiCallsTotal(usage_records) ==
    IF usage_records = << >> THEN 0
    ELSE (IF usage_records[1].usage_type = "api_call" THEN usage_records[1].quantity ELSE 0)
         + ApiCallsTotal(Tail(usage_records))

URSubChoices ==
    {[api_calls_used |-> a[1], max_api_calls_per_month |-> a[2],
      storage_used |-> 0, max_storage_gb |-> 5, max_users |-> 5,
      api_key_count |-> 1, max_api_keys |-> 5] :
        a \in {<<3, 0>>, <<10, 100>>, <<70, 100>>, <<94, 100>>}}

URCall(op, usage_type, quantity, before, after, outcome) ==
    [op |-> op, usage_type |-> usage_type, quantity |-> quantity,
     before |-> before, after |-> after, outcome |-> outcome]

InitRecord ==
    /\ clock = 0
    /\ uSub \in URSubChoices
    /\ uMembers \in UMemberChoices
    /\ uEvents = << >>
    /\ uNotifs = << >>
    /\ uLast = [summary |-> GetUsageSummary(uSub, uMembers),
                events |-> << >>, notifs |-> << >>]
    /\ uCount = 0
    /\ urRecords = << >>
    /\ urSignals = << >>
    /\ urLast = URCall("none", "", 0, 0, 0, "")
    /\ RLIdle
    /\ KeyIdle
    /\ AuthIdle
    /\ BillIdle
    /\ ProrIdle
    /\ DiscIdle
    /\ AlertIdle
    /\ LifeIdle
    /\ CreateIdle
    /\ TaskIdle
    /\ TeamIdle
    /\ RCIdle
    /\ PriceIdle
    /\ RenewIdle
    /\ TrialIdle

\* UsageTracker.record_usage(subscription, usage_type, quantity)
URRecordUsage(usage_type, quantity) ==
    /\ uCount < URMaxCalls
    /\ uCount' = uCount + 1
    /\ LET record == UsageRecordRow(usage_type, quantity)
           signal == HandleUsageRecordCreation(uSub, record)
           counted == IF usage_type = "api_call"
                      THEN [signal.sub EXCEPT !.api_calls_used = @ + quantity]
                      ELSE signal.sub
           usage_summary == GetUsageSummary(counted, uMembers)
           alerts == AlertsUpTo(usage_summary, uMembers, Len(UUsageTypes))
       IN /\ urRecords' = Append(urRecords, record)
          /\ urSignals' = urSignals \o signal.signals
          /\ IF signal.raised
             THEN \* the division by a limit of 0 ends the call inside objects.create
                  /\ uSub' = signal.sub
                  /\ urLast' = URCall("record_usage", usage_type, quantity,
                                      uSub.api_calls_used, signal.sub.api_calls_used,
                                      "ZeroDivisionError")
                  /\ UNCHANGED <<uEvents, uNotifs, uLast>>
             ELSE /\ uSub' = counted
                  /\ uEvents' = uEvents \o alerts.events
                  /\ uNotifs' = uNotifs \o alerts.notifs
                  /\ uLast' = [summary |-> usage_summary,
                               events |-> alerts.events, notifs |-> alerts.notifs]
                  /\ urLast' = URCall("record_usage", usage_type, quantity,
                                      uSub.api_calls_used, counted.api_calls_used,
                                      "returned")
    /\ UNCHANGED <<clock, uMembers, RecordOthers>>

\* UsageTracker.bulk_create_usage_records(subscription, usage_records)
URBulkCreate(usage_records) ==
    /\ uCount < URMaxCalls
    /\ uCount' = uCount + 1
    /\ LET api_calls_total == ApiCallsTotal(usage_records)
           counted == IF api_calls_total > 0
                      THEN [uSub EXCEPT !.api_calls_used = @ + api_calls_total]
                      ELSE uSub
           usage_summary == GetUsageSummary(counted, uMembers)
           alerts == AlertsUpTo(usage_summary, uMembers, Len(UUsageTypes))
       IN /\ urRecords' = urRecords \o usage_records
          /\ uSub' = counted
          /\ uEvents' = uEvents \o alerts.events
          /\ uNotifs' = uNotifs \o alerts.notifs
          /\ uLast' = [summary |-> usage_summary,
                       events |-> alerts.events, notifs |-> alerts.notifs]
          /\ urLast' = URCall("bulk_create_usage_records", "api_call", api_calls_total,
                              uSub.api_calls_used, counted.api_calls_used, "returned")
    /\ UNCHANGED <<clock, uMembers, urSignals, RecordOthers>>

URBatches ==
    {<<UsageRecordRow(t, q)>> : t \in URUsageTypes, q \in URQuantities}
    \cup {<<UsageRecordRow("api_call", q), UsageRecordRow(t, 5)>> :
             t \in URUsageTypes, q \in URQuantities}

NextRecord ==
    \/ \E usage_type \in URUsageTypes, quantity \in URQuantities :
          URRecordUsage(usage_type, quantity)
    \/ \E usage_records \in URBatches : URBulkCreate(usage_records)

SpecRecord == InitRecord /\ [][NextRecord]_vars

\* C19: record_usage(subscription, 'api_call', q) leaves api_calls_used
\* exactly q higher than before, as bulk_create_usage_records does for records that
\* total q API calls.
C19_UsageCountedOnce ==
    (urLast.op \in {"record_usage", "bulk_create_usage_records"}
        /\ urLast.usage_type = "api_call")
    => urLast.after = urLast.before + urLast.quantity

\* ---- C22

\* C22: when a record_usage call has created an alert of a threshold (80 or
\* 100) for a usage type, the next record_usage call, which finds the usage still at
\* or above that threshold, creates no further alert of that threshold for that
\* usage type: no event and no member notification.
C22_NoRepeatedAlert ==
    [][(/\ urLast.op = "record_usage"
        /\ urLast.outcome = "returned"
        /\ uCount' > uCount
        /\ urLast'.op = "record_usage"
        /\ urLast'.outcome = "returned")
       => \A i \in DOMAIN uLast.events :
             /\ \A j \in DOMAIN uLast'.events :
                   ~(/\ uLast'.events[j].usage_type = uLast.events[i].usage_type
                     /\ uLast'.events[j].percentage = uLast.events[i].percentage)
             /\ \A j \in DOMAIN uLast'.notifs :
                   ~(/\ uLast'.notifs[j].usage_type = uLast.events[i].usage_type
                     /\ uLast'.notifs[j].percentage = uLast.events[i].percentage)]_vars
\* ================================================== renewals against billing
\* check_subscription_renewals (apps/subscriptions/tasks.py), which beat runs every
\* 30 minutes, next to process_billing runs for today (no --dry-run, --days-ahead 0).
\* Each run of check_subscription_renewals is one step.

RnTicks == 3
RnMaxRuns == 2

\* 'schedule': 1800.0
RnSchedule == HOUR \div 2

\* 09:00 UTC, 14:30 in Asia/Kolkata, on the second day
RnClock0 == Days(1) + 9 * HOUR

\* the subscriptions check_subscription_renewals reminds: active, ending within 7 days
ExpiringSubscriptions(rows, now) ==
    {s \in DOMAIN rows :
        /\ rows[s].status = "active"
        /\ rows[s].current_period_end <= now + Days(7)
        /\ rows[s].current_period_end > now}

\* the subscriptions it marks: active, with the period over
OverdueSubscriptions(rows, now) ==
    {s \in DOMAIN rows :
        /\ rows[s].status = "active"
        /\ rows[s].current_period_end < now}

\* filter(subscription=..., event_type='renewal_reminder', created_at__date=today).exists()
ReminderSentToday(events, s, now) ==
    \E e \in events :
       /\ e.sub = s
       /\ e.event_type = "renewal_reminder"
       /\ LocalDay(e.at) = DayStamp(now)

RenewalEvent(event_type, s, now, days) ==
    [event_type |-> event_type, sub |-> s, at |-> now, days |-> days]

\* the reminders of one run: an event and an e-mail for each
RenewalReminders(rows, events, now) ==
    {RenewalEvent("renewal_reminder", s, now,
                  TimedeltaDays(rows[s].current_period_end - now)) :
        s \in {x \in ExpiringSubscriptions(rows, now) :
                  /\ TimedeltaDays(rows[x].current_period_end - now) \in {7, 3, 1}
                  /\ ~ReminderSentToday(events, x, now)}}

\* subscriptions due within the hour, and one due in a day
RnDueDates == {RnClock0 + 1, RnClock0 + 2, RnClock0 + DAY + 2}

RnSubChoices == {BSubRow("monthly", "active", d, 3) : d \in RnDueDates}

InitRenew ==
    /\ clock = RnClock0
    /\ bSubs \in [BSubIds -> RnSubChoices]
    /\ bInvoices \in BInvoiceSeeds
    /\ bRun = [r \in BRuns |-> BIdleRun]
    /\ bRenewals = {}
    /\ bFailed = 0
    /\ bCount = 0
    /\ rnEvents = {}
    /\ rnLastRun = NoTime
    /\ rnRuns = 0
    /\ RLIdle
    /\ KeyIdle
    /\ AuthIdle
    /\ ProrIdle
    /\ DiscIdle
    /\ UsageIdle
    /\ AlertIdle
    /\ LifeIdle
    /\ CreateIdle
    /\ TaskIdle
    /\ TeamIdle
    /\ RCIdle
    /\ PriceIdle
    /\ RecordIdle
    /\ TrialIdle

\* check_subscription_renewals
RnCheckSubscriptionRenewals ==
    /\ rnRuns < RnMaxRuns
    /\ rnLastRun = NoTime \/ clock >= rnLastRun + RnSchedule
    /\ rnRuns' = rnRuns + 1
    /\ rnLastRun' = clock
    /\ LET overdue == OverdueSubscriptions(bSubs, clock)
       IN /\ bSubs' = [s \in DOMAIN bSubs |->
                          IF s \in overdue THEN [bSubs[s] EXCEPT !.status = "past_due"]
                          ELSE bSubs[s]]
          /\ rnEvents' = rnEvents
                \cup RenewalReminders(bSubs, rnEvents, clock)
                \cup {RenewalEvent("payment_overdue", s, clock, 0) : s \in overdue}
    /\ UNCHANGED <<clock, bInvoices, bRun, bRenewals, bFailed, bCount, RenewOthers>>

RnTick ==
    /\ clock < RnClock0 + RnTicks
    /\ clock' = clock + 1
    /\ UNCHANGED <<billVars, renewVars, RenewOthers>>

NextRenew ==
    \/ \E r \in BRuns : BHandle(r, FALSE, 0)
    \/ \E r \in BRuns : BGenerateNumber(r)
    \/ \E r \in BRuns : BInsertAndRenew(r)
    \/ RnCheckSubscriptionRenewals
    \/ RnTick

SpecRenew == InitRenew /\ [][NextRenew]_vars

\* C20: when process_billing starts a run for today, no subscription
\* whose next_billing_date is today has been marked 'past_due' by
\* check_subscription_renewals, which would keep the run from billing it.
C20_DueBilledBeforePastDue ==
    [][bCount' > bCount =>
          \A s \in DOMAIN bSubs :
             ~(/\ bSubs[s].status = "past_due"
               /\ bSubs[s].next_billing_date # NoTime
               /\ LocalDay(bSubs[s].next_billing_date) = DayStamp(clock))]_vars
\* ========================================================== trial expiration
\* process_trial_expiration (apps/subscriptions/tasks.py) next to the tasks that
\* app.conf.beat_schedule (billmunshi/celery.py) sends for apps.subscriptions, and
\* process_subscription_webhook, which a payment provider's delivery starts. beat
\* sends an entry when its interval has passed since it last sent it; no entry names
\* process_trial_expiration, which runs only when somebody calls it. Each task run
\* is one step.

TrTicks == 3
TrMaxCalls == 2

\* 09:00 UTC, 14:30 in Asia/Kolkata, on the 41st day
TrClock0 == Days(40) + 9 * HOUR

TrSubOrder == <<"s1">>
TrSubIds == {TrSubOrder[i] : i \in DOMAIN TrSubOrder}

\* app.conf.beat_schedule: the entries of apps.subscriptions.tasks and their intervals
BeatSchedule ==
    [process_daily_usage |-> HOUR,
     check_subscription_renewals |-> HOUR \div 2,
     send_usage_alerts |-> HOUR,
     generate_monthly_reports |-> DAY,
     cleanup_old_usage_records |-> DAY]

BeatTasks == DOMAIN BeatSchedule

\* the entry is due
BeatDue(task) == clock >= trLastRun[task] + BeatSchedule[task]

\* OrganizationSubscription.is_active
IsActive(row) == row.status \in {"trial", "active"}

\* create_subscription with trial_days: the row, trial_days before the trial ends
TrSubRow(trial_days, trial_end_date) ==
    [plan |-> "basic",
     status |-> "trial",
     start_date |-> trial_end_date - Days(trial_days),
     end_date |-> NoTime,
     cancelled_at |-> NoTime,
     trial_end_date |-> trial_end_date,
     current_period_start |-> trial_end_date - Days(trial_days),
     current_period_end |-> trial_end_date - Days(trial_days) + Days(30),
     next_billing_date |-> NoTime]

\* trials that end within the hour, and one that ends in a day;
\* a trial of 30 days ends with the first billing period
TrSubChoices ==
    {TrSubRow(30, TrClock0 + 1), TrSubRow(14, TrClock0 + 2), TrSubRow(14, TrClock0 + DAY + 1)}

\* process_trial_expiration: trials expiring in next 3 days
ExpiringTrials(rows, now) ==
    {s \in DOMAIN rows :
        /\ rows[s].status = "trial"
        /\ rows[s].trial_end_date <= now + Days(3)
        /\ rows[s].trial_end_date > now}

\* process_trial_expiration: expired trials
ExpiredTrials(rows, now) ==
    {s \in DOMAIN rows :
        /\ rows[s].status = "trial"
        /\ rows[s].trial_end_date <= now}

\* the events one loop creates for the subscriptions of S, in the order of the ids
TrEventSeq(event_type, S, now, days) ==
    LET ids == SelectSeq(TrSubOrder, LAMBDA s : s \in S)
    IN [i \in 1..Len(ids) |-> RenewalEvent(event_type, ids[i], now, days[ids[i]])]

TrEventSet(events) == {events[i] : i \in DOMAIN events}

InitTrial ==
    /\ clock = TrClock0
    /\ trSubs \in [TrSubIds -> TrSubChoices]
    /\ trEvents = << >>
    /\ trInvoices = {}
    /\ trEmails = 0
    /\ trLastRun = [task \in BeatTasks |-> TrClock0 - BeatSchedule[task] + 1]
    /\ trCalls = 0
    /\ RLIdle
    /\ KeyIdle
    /\ AuthIdle
    /\ BillIdle
    /\ ProrIdle
    /\ DiscIdle
    /\ UsageIdle
    /\ AlertIdle
    /\ LifeIdle
    /\ CreateIdle
    /\ TaskIdle
    /\ TeamIdle
    /\ RCIdle
    /\ PriceIdle
    /\ RecordIdle
    /\ RenewIdle

\* beat sends check_subscription_renewals
TrCheckSubscriptionRenewals ==
    /\ BeatDue("check_subscription_renewals")
    /\ trLastRun' = [trLastRun EXCEPT !["check_subscription_renewals"] = clock]
    /\ LET overdue == OverdueSubscriptions(trSubs, clock)
           reminders == RenewalReminders(trSubs, TrEventSet(trEvents), clock)
           reminded == {e.sub : e \in reminders}
           days == [s \in TrSubIds |->
                       TimedeltaDays(trSubs[s].current_period_end - clock)]
       IN /\ trSubs' = [s \in TrSubIds |->
                           IF s \in overdue
                           THEN SubscriptionSave([trSubs[s] EXCEPT !.status = "past_due"])
                           ELSE trSubs[s]]
          /\ trEvents' = trEvents
                \o TrEventSeq("renewal_reminder", reminded, clock, days)
                \o TrEventSeq("payment_overdue", overdue, clock, [s \in TrSubIds |-> 0])
          /\ trEmails' = trEmails + Cardinality(reminded) + Cardinality(overdue)
    /\ UNCHANGED <<clock, trInvoices, trCalls, TrialOthers>>

\* beat sends one of its other entries: process_daily_usage, send_usage_alerts,
\* generate_monthly_reports and cleanup_old_usage_records read the subscriptions
\* with status in ['trial', 'active'] and write no OrganizationSubscription
TrBeatOther(task) ==
    /\ task # "check_subscription_renewals"
    /\ BeatDue(task)
    /\ trLastRun' = [trLastRun EXCEPT ![task] = clock]
    /\ UNCHANGED <<clock, trSubs, trEvents, trInvoices, trEmails, trCalls, TrialOthers>>

\* process_trial_expiration, called by hand
TrProcessTrialExpiration ==
    /\ trCalls < TrMaxCalls
    /\ trCalls' = trCalls + 1
    /\ LET days == [s \in TrSubIds |-> TimedeltaDays(trSubs[s].trial_end_date - clock)]
           warned == {s \in ExpiringTrials(trSubs, clock) : days[s] \in {3, 1}}
           expired == ExpiredTrials(trSubs, clock)
       IN /\ trSubs' = [s \in TrSubIds |->
                           IF s \in expired
                           THEN SubscriptionSave([trSubs[s] EXCEPT !.status = "expired"])
                           ELSE trSubs[s]]
          /\ trEvents' = trEvents
                \o TrEventSeq("trial_expiring", warned, clock, days)
                \o TrEventSeq("trial_ended", expired, clock, [s \in TrSubIds |-> 0])
          /\ trEmails' = trEmails + Cardinality(warned) + Cardinality(expired)
    /\ UNCHANGED <<clock, trInvoices, trLastRun, TrialOthers>>

TrWebhookTypes == {"payment_succeeded", "payment_failed", "subscription_cancelled"}
TrInvoiceNumbers == {"INV-1"}

\* process_subscription_webhook(webhook_data) for a subscription that exists
TrProcessSubscriptionWebhook(event_type, s, number) ==
    /\ trCalls < TrMaxCalls
    /\ trCalls' = trCalls + 1
    /\ trSubs' = [trSubs EXCEPT ![s] =
          IF event_type = "payment_succeeded"
          THEN (IF @.status # "active"
                THEN SubscriptionSave([@ EXCEPT !.status = "active"])
                ELSE @)
          ELSE IF event_type = "payment_failed"
          THEN SubscriptionSave([@ EXCEPT !.status = "past_due"])
          ELSE SubscriptionSave([@ EXCEPT !.status = "cancelled",
                                          !.cancelled_at = clock])]
    /\ trInvoices' = IF event_type = "payment_succeeded"
                     THEN trInvoices \cup {[sub |-> s, invoice_number |-> number]}
                     ELSE trInvoices
    /\ trEvents' = Append(trEvents,
          RenewalEvent(IF event_type = "subscription_cancelled" THEN "cancelled"
                       ELSE event_type, s, clock, 0))
    /\ trEmails' = IF event_type = "subscription_cancelled" THEN trEmails
                   ELSE trEmails + 1
    /\ UNCHANGED <<clock, trLastRun, TrialOthers>>

\* time passes when beat has sent every entry that is due. Past TrClock0 + TrTicks
\* the clock is no longer counted: it stands still, and the time since beat last sent
\* each entry keeps growing, so that beat goes on sending the entries for ever
TrTick ==
    /\ \A task \in BeatTasks : ~BeatDue(task)
    /\ IF clock < TrClock0 + TrTicks
       THEN /\ clock' = clock + 1
            /\ UNCHANGED trLastRun
       ELSE /\ clock' = clock
            /\ trLastRun' = [task \in BeatTasks |-> trLastRun[task] - 1]
    /\ UNCHANGED <<trSubs, trEvents, trInvoices, trEmails, trCalls, TrialOthers>>

NextTrial ==
    \/ TrCheckSubscriptionRenewals
    \/ \E task \in BeatTasks : TrBeatOther(task)
    \/ TrProcessTrialExpiration
    \/ \E event_type \in TrWebhookTypes, s \in TrSubIds, number \in TrInvoiceNumbers :
          TrProcessSubscriptionWebhook(event_type, s, number)
    \/ TrTick

SpecTrial == InitTrial /\ [][NextTrial]_vars

\* beat runs and time passes: every entry of the schedule that is due is sent, and
\* the clock advances; nothing makes a call that is not in the schedule happen
SpecTrialBeat ==
    /\ SpecTrial
    /\ WF_vars(TrTick)
    /\ WF_vars(TrCheckSubscriptionRenewals)
    /\ \A task \in BeatTasks : WF_vars(TrBeatOther(task))

\* C23: under the beat schedule, a subscription in status 'trial' whose
\* trial_end_date has passed eventually leaves 'trial' (expired by
\* process_trial_expiration unless activated or cancelled first), so that is_active
\* does not stay true for it for ever.
C23_ExpiredTrialLeavesTrial ==
    \A s \in TrSubIds :
        (trSubs[s].status = "trial" /\ trSubs[s].trial_end_date <= clock)
            ~> ~(trSubs[s].status = "trial" /\ IsActive(trSubs[s]))
====
